---- MODULE Spec2Model ----
(***************************************************************************)
(* grepforllm: the file discovery walk (ListFiles), the layered filter     *)
(* (applyFilters / shouldIncludeFileByFilters) and the handlers that       *)
(* drive them (ApplyFilter, ToggleFilterMode, Layout, ...).                *)
(*                                                                         *)
(* Strings are sequences of one-character strings, so that splitting,      *)
(* trimming, prefix tests and glob matching are computed, not assumed.     *)
(* The Go library functions are TLA+ functions (applied with [ ]), the     *)
(* program's own functions are operators.                                  *)
(***************************************************************************)
EXTENDS Integers, Sequences, FiniteSets, TLC

(***************************************************************************)
(* Characters and the Go string functions the code calls.                  *)
(***************************************************************************)

\* The characters used by the model, in ascending byte order.
Alphabet ==
    << "\n", " ", "*", ",", "-", ".", "/", "?", "A", "D", "E", "H",
       "[", "\\", "]", "^", "_",
       "a", "b", "c", "d", "e", "g", "i", "l", "m", "n", "o", "r", "s",
       "t", "u", "x", "y", "z" >>

Chars == {Alphabet[i] : i \in 1..Len(Alphabet)}

\* Byte value order of a character (only the order matters).
Ord == [c \in Chars |-> CHOOSE i \in 1..Len(Alphabet) : Alphabet[i] = c]

\* Strings, and slices of strings.
Str == Seq(STRING)
StrSeq == Seq(Str)

Separator == "/"

Range(seq) == {seq[i] : i \in 1..Len(seq)}

\* The element of a one-element set.  The({e(v) : v \in {d}}) is e(d) with d
\* computed once, as the code computes a local variable once.
The(S) == CHOOSE v \in S : TRUE

\* s[n:] and s[:n] of Go.
Drop[s \in Str, n \in Int] ==
    IF n >= Len(s) THEN << >> ELSE SubSeq(s, n + 1, Len(s))
Take[s \in Str, n \in Int] ==
    IF n <= 0 THEN << >> ELSE SubSeq(s, 1, IF n > Len(s) THEN Len(s) ELSE n)

\* strings.HasPrefix
HasPrefix[s \in Str, prefix \in Str] ==
    Len(s) >= Len(prefix) /\ SubSeq(s, 1, Len(prefix)) = prefix

\* strings.HasSuffix
HasSuffix[s \in Str, suffix \in Str] ==
    /\ Len(s) >= Len(suffix)
    /\ SubSeq(s, Len(s) - Len(suffix) + 1, Len(s)) = suffix

\* Index of the first occurrence of c in s at or after i, 0 when there is none.
IndexFrom[s \in Str, c \in STRING, i \in Nat] ==
    IF i > Len(s) THEN 0
    ELSE IF s[i] = c THEN i
    ELSE IndexFrom[s, c, i + 1]

\* Index of the last occurrence of c in s at or before i, 0 when there is none.
LastIndexFrom[s \in Str, c \in STRING, i \in Nat] ==
    IF i = 0 THEN 0
    ELSE IF s[i] = c THEN i
    ELSE LastIndexFrom[s, c, i - 1]

\* strings.Contains for a single character
ContainsChar[s \in Str, c \in STRING] == IndexFrom[s, c, 1] # 0

IsSpace[c \in STRING] == c \in {" ", "\n", "\t", "\r"}

\* strings.TrimSpace
TrimLeft[s \in Str] ==
    IF s # << >> /\ IsSpace[s[1]] THEN TrimLeft[Tail(s)] ELSE s
TrimRight[s \in Str] ==
    IF s # << >> /\ IsSpace[s[Len(s)]]
    THEN TrimRight[SubSeq(s, 1, Len(s) - 1)]
    ELSE s
TrimSpace[s \in Str] == TrimRight[TrimLeft[s]]

\* strings.Split(s, sep) for a one-character separator: always at least one
\* field, empty fields kept.
Split[s \in Str, sep \in STRING] ==
    The({ IF i = 0 THEN << s >>
          ELSE << Take[s, i - 1] >> \o Split[Drop[s, i], sep] :
          i \in {IndexFrom[s, sep, 1]} })

\* Removal of trailing separators.
StripTrailingSlashes[s \in Str] ==
    IF Len(s) > 0 /\ s[Len(s)] = Separator
    THEN StripTrailingSlashes[SubSeq(s, 1, Len(s) - 1)]
    ELSE s

\* filepath.Base
Base[path \in Str] ==
    IF path = << >> THEN << "." >>
    ELSE The({ IF p = << >> THEN << Separator >>
               ELSE Drop[p, LastIndexFrom[p, Separator, Len(p)]] :
               p \in {StripTrailingSlashes[path]} })

\* filepath.Dir on the clean relative paths the walk produces: everything
\* before the last separator, cleaned ("." when empty, no trailing slash).
Dir[path \in Str] ==
    The({ IF i = 0 THEN << "." >>
          ELSE IF i = 1 THEN << Separator >>
          ELSE Take[path, i - 1] :
          i \in {LastIndexFrom[path, Separator, Len(path)]} })

\* filepath.ToSlash: the identity where the separator is "/".
ToSlash[s \in Str] == s

\* Byte-wise string order used by sort.Strings and by os.ReadDir.
StrLess[a \in Str, b \in Str] ==
    IF b = << >> THEN FALSE
    ELSE IF a = << >> THEN TRUE
    ELSE IF a[1] # b[1] THEN Ord[a[1]] < Ord[b[1]]
    ELSE StrLess[Tail(a), Tail(b)]

\* x put into an ascending sequence, before the first greater element.
Insert[seq \in StrSeq, x \in Str] ==
    IF seq = << >> THEN << x >>
    ELSE IF StrLess[x, seq[1]] THEN << x >> \o seq
    ELSE << seq[1] >> \o Insert[Tail(seq), x]

\* sort.Strings: ascending, duplicates kept.
SortStrings[seq \in StrSeq] ==
    IF seq = << >> THEN << >>
    ELSE Insert[SortStrings[SubSeq(seq, 1, Len(seq) - 1)], seq[Len(seq)]]

(***************************************************************************)
(* filepath.Match (Go standard library), as shouldIncludeFileByFilters     *)
(* uses it: the error result is discarded, only "matched" is kept.         *)
(***************************************************************************)

\* scanChunk's scan: the index of the first star of p at or after i that is
\* outside a bracket expression, Len(p) + 1 when there is none.
ChunkEnd[p \in Str, i \in Nat, inrange \in BOOLEAN] ==
    IF i > Len(p) THEN i
    ELSE IF p[i] = "\\" THEN ChunkEnd[p, IF i + 1 <= Len(p) THEN i + 2 ELSE i + 1, inrange]
    ELSE IF p[i] = "[" \/ p[i] = "]" THEN ChunkEnd[p, i + 1, p[i] = "["]
    ELSE IF p[i] = "*" /\ ~inrange THEN i
    ELSE ChunkEnd[p, i + 1, inrange]

StripStars[p \in Str] ==
    IF Len(p) > 0 /\ p[1] = "*" THEN StripStars[Tail(p)] ELSE p

\* scanChunk: leading stars are removed; the chunk runs to the next star
\* that is outside a bracket expression.
scanChunk[pattern \in Str] ==
    The({ The({ [star  |-> Len(pattern) > 0 /\ pattern[1] = "*",
                 chunk |-> Take[p, i - 1],
                 rest  |-> Drop[p, i - 1]] :
                i \in {ChunkEnd[p, 1, FALSE]} }) :
          p \in {StripStars[pattern]} })

\* getEsc: one (possibly escaped) character of a bracket expression.
getEsc[chunk \in Str] ==
    IF chunk = << >> \/ chunk[1] = "-" \/ chunk[1] = "]"
    THEN [err |-> TRUE, r |-> "", rest |-> << >>]
    ELSE IF chunk[1] = "\\"
    THEN IF Len(chunk) = 1
         THEN [err |-> TRUE, r |-> "", rest |-> << >>]
         ELSE [err |-> Len(chunk) = 2, r |-> chunk[2], rest |-> Drop[chunk, 2]]
    ELSE [err |-> Len(chunk) = 1, r |-> chunk[1], rest |-> Tail(chunk)]

\* matchChunk's loop over the ranges of a bracket expression, after "[" and
\* an optional "^".  r is the character compared, "" once the match has
\* failed (the zero rune of the code, inside no range).  "failed" in the
\* result is match == negated.
ClassRanges[chunk \in Str, r \in STRING, negated \in BOOLEAN, nrange \in Nat, match \in BOOLEAN] ==
    IF Len(chunk) > 0 /\ chunk[1] = "]" /\ nrange > 0
    THEN [err |-> FALSE, failed |-> match = negated, rest |-> Tail(chunk)]
    ELSE The({
        IF lo.err THEN [err |-> TRUE, failed |-> TRUE, rest |-> << >>]
        ELSE The({
            IF hi.err THEN [err |-> TRUE, failed |-> TRUE, rest |-> << >>]
            ELSE ClassRanges[hi.rest, r, negated, nrange + 1,
                             match \/ (/\ r # ""
                                       /\ Ord[lo.r] <= Ord[r]
                                       /\ Ord[r] <= Ord[hi.r])] :
            hi \in {IF lo.rest[1] = "-" THEN getEsc[Tail(lo.rest)] ELSE lo} }) :
        lo \in {getEsc[chunk]} })

\* matchChunk: after the match has failed the chunk is still parsed to the
\* end, so that a malformed chunk is reported; s is then read no more.
matchChunk[chunk \in Str, s \in Str, failedIn \in BOOLEAN] ==
    IF chunk = << >>
    THEN [ok |-> ~failedIn, rest |-> IF failedIn THEN << >> ELSE s, err |-> FALSE]
    ELSE The({
        IF chunk[1] = "[" THEN
            The({ IF c.err THEN [ok |-> FALSE, rest |-> << >>, err |-> TRUE]
                  ELSE matchChunk[c.rest, IF failed THEN s ELSE Tail(s),
                                  failed \/ c.failed] :
                  c \in {ClassRanges[
                            IF Len(chunk) > 1 /\ chunk[2] = "^"
                            THEN Drop[chunk, 2] ELSE Tail(chunk),
                            IF failed THEN "" ELSE s[1],
                            Len(chunk) > 1 /\ chunk[2] = "^", 0, FALSE]} })
        ELSE IF chunk[1] = "?" THEN
            matchChunk[Tail(chunk), IF failed THEN s ELSE Tail(s),
                       failed \/ s[1] = Separator]
        ELSE IF chunk[1] = "\\" /\ Len(chunk) = 1 THEN
            [ok |-> FALSE, rest |-> << >>, err |-> TRUE]
        ELSE The({
            matchChunk[Tail(lit), IF failed THEN s ELSE Tail(s),
                       failed \/ lit[1] # s[1]] :
            lit \in {IF chunk[1] = "\\" THEN Tail(chunk) ELSE chunk} }) :
        failed \in {failedIn \/ s = << >>} })

\* The star loop of Match: the chunk matched after skipping i, i + 1, ...
\* characters, none of them a separator; the first success is taken (at the
\* last chunk only one that uses up the name).
StarSkip[chunk \in Str, last \in BOOLEAN, name \in Str, i \in Nat] ==
    IF i > Len(name) \/ name[i] = Separator
    THEN [ok |-> FALSE, rest |-> << >>, err |-> FALSE]
    ELSE The({ IF t.ok /\ ~(last /\ Len(t.rest) > 0) THEN t
               ELSE IF t.err THEN [ok |-> FALSE, rest |-> << >>, err |-> TRUE]
               ELSE StarSkip[chunk, last, name, i + 1] :
               t \in {matchChunk[chunk, Drop[name, i], FALSE]} })

\* filepath.Match: the "matched" result.
Match[pattern \in Str, name \in Str] ==
    IF pattern = << >> THEN name = << >>
    ELSE \E sc \in {scanChunk[pattern]} :
        IF sc.star /\ sc.chunk = << >>
        THEN ~ContainsChar[name, Separator]
        ELSE \E t \in {matchChunk[sc.chunk, name, FALSE]} :
            IF t.ok /\ (Len(t.rest) = 0 \/ Len(sc.rest) > 0)
            THEN Match[sc.rest, t.rest]
            ELSE IF t.err \/ ~sc.star THEN FALSE
            ELSE \E u \in {StarSkip[sc.chunk, Len(sc.rest) = 0, name, 1]} :
                u.ok /\ Match[sc.rest, u.rest]

(***************************************************************************)
(* Constants of the program.                                               *)
(***************************************************************************)

ExcludeMode == "ExcludeMode"
IncludeMode == "IncludeMode"
FilterModes == {ExcludeMode, IncludeMode}

FilesViewName  == "files"
FilterViewName == "filter"
CacheViewName == "cache"

\* A variant of DefaultExcludes that lacks node_modules/.
DefaultExcludesGitOnly == << ".", "g", "i", "t", "/" >>

\* DefaultExcludes = ".git/,node_modules/"
DefaultExcludes ==
    << ".", "g", "i", "t", "/", ",",
       "n", "o", "d", "e", "_", "m", "o", "d", "u", "l", "e", "s", "/" >>

Nil == "nil"

(***************************************************************************)
(* shouldIncludeFileByFilters and its parts.                               *)
(***************************************************************************)

\* A variant of dirPathOf that leaves out the trailing "/".
dirPathNoSlash(relPath) ==
    The({ IF dir = << "." >> THEN << >> ELSE dir : dir \in {Dir[relPath]} })

\* dirPath: "" for a file at the root, otherwise filepath.Dir(relPath)
\* followed by "/".
dirPathOf(relPath) ==
    The({ IF dir = << "." >> THEN << >> ELSE dir \o << "/" >> :
          dir \in {Dir[relPath]} })

\* One iteration of the DefaultExcludes loop: does this entry exclude the file?
defaultPatternHits(rawPattern, relPath, baseName, dirPath) ==
    \E pattern \in {ToSlash[TrimSpace[rawPattern]]} :
        /\ pattern # << >>
        /\ IF HasSuffix[pattern, << "/" >>]
           THEN HasPrefix[dirPath, pattern]
           ELSE \E name \in {baseName, relPath} : Match[pattern, name]

\* isDefaultExcluded after the loop over strings.Split(DefaultExcludes, ",").
isDefaultExcluded(relPath, baseName, dirPath) ==
    \E rawPattern \in Range(Split[DefaultExcludes, ","]) :
        defaultPatternHits(rawPattern, relPath, baseName, dirPath)

\* One iteration of the IncludeMode loop: does this entry include the file?
includePatternHits(rawPattern, relPath, baseName, dirPath) ==
    \E pattern \in {ToSlash[TrimSpace[rawPattern]]} :
        /\ pattern # << >>
        /\ IF HasSuffix[pattern, << "/" >>]
           THEN \/ HasPrefix[dirPath, pattern]
                \/ (pattern = << "/" >> /\ dirPath = << >>)
           ELSE \E name \in {baseName, relPath} : Match[pattern, name]

\* "included" after the loop over strings.Split(includes, ",").
includedByPatterns(includes, relPath, baseName, dirPath) ==
    \E rawPattern \in Range(Split[includes, ","]) :
        includePatternHits(rawPattern, relPath, baseName, dirPath)

\* A variant of excludePatternHits that tries a glob on the base name only.
excludePatternHitsBaseOnly(rawPattern, relPath, baseName, dirPath) ==
    \E pattern \in {ToSlash[TrimSpace[rawPattern]]} :
        /\ pattern # << >>
        /\ IF HasSuffix[pattern, << "/" >>]
           THEN \/ HasPrefix[dirPath, pattern]
                \/ (pattern = << "/" >> /\ dirPath = << >>)
           ELSE Match[pattern, baseName]

\* One iteration of the ExcludeMode loop: does this entry exclude the file?
excludePatternHits(rawPattern, relPath, baseName, dirPath) ==
    \E pattern \in {ToSlash[TrimSpace[rawPattern]]} :
        /\ pattern # << >>
        /\ IF HasSuffix[pattern, << "/" >>]
           THEN \/ HasPrefix[dirPath, pattern]
                \/ (pattern = << "/" >> /\ dirPath = << >>)
           ELSE \E name \in {baseName, relPath} : Match[pattern, name]

\* A variant of excludedByPatterns that tries the last entry only.
excludedByLastPattern(excludes, relPath, baseName, dirPath) ==
    \E patterns \in {Split[excludes, ","]} :
        excludePatternHits(patterns[Len(patterns)], relPath, baseName, dirPath)

\* A variant of excludedByPatterns that stops after the first entry.
excludedByFirstPattern(excludes, relPath, baseName, dirPath) ==
    excludePatternHits(Split[excludes, ","][1], relPath, baseName, dirPath)

\* The ExcludeMode loop over strings.Split(excludes, ",") returned false.
excludedByPatterns(excludes, relPath, baseName, dirPath) ==
    \E rawPattern \in Range(Split[excludes, ","]) :
        excludePatternHits(rawPattern, relPath, baseName, dirPath)

\* A variant of the mode logic in which IncludeMode applies excludes too.
filterModeLogicBothStrings(relPath, baseName, dirPath, defaultExcluded, filterMode, includes, excludes) ==
    IF filterMode = IncludeMode
    THEN IF includes = << >>
         THEN ~defaultExcluded
         ELSE /\ includedByPatterns(includes, relPath, baseName, dirPath)
              /\ ~defaultExcluded
              /\ ~excludedByPatterns(excludes, relPath, baseName, dirPath)
    ELSE IF defaultExcluded
         THEN FALSE
         ELSE ~excludedByPatterns(excludes, relPath, baseName, dirPath)

\* The mode logic, once baseName, dirPath and isDefaultExcluded are computed.
filterModeLogic(relPath, baseName, dirPath, defaultExcluded, filterMode, includes, excludes) ==
    IF filterMode = IncludeMode
    THEN IF includes = << >>
         THEN ~defaultExcluded
         ELSE /\ includedByPatterns(includes, relPath, baseName, dirPath)
              /\ ~defaultExcluded
    ELSE IF defaultExcluded
         THEN FALSE
         ELSE ~excludedByPatterns(excludes, relPath, baseName, dirPath)

shouldIncludeFileByFilters(relPath, filterMode, includes, excludes) ==
    \E baseName \in {Base[relPath]}, dirPath \in {dirPathOf(relPath)} :
        \E defaultExcluded \in {isDefaultExcluded(relPath, baseName, dirPath)} :
            filterModeLogic(relPath, baseName, dirPath, defaultExcluded,
                            filterMode, includes, excludes)

\* The loop of applyFilters: the files of allFiles that pass, in order.
filteredList(files, filterMode, includes, excludes) ==
    SelectSeq(files,
              LAMBDA file :
                  shouldIncludeFileByFilters(file, filterMode, includes, excludes))

max(a, b) == IF a > b THEN a ELSE b

(***************************************************************************)
(* The directory trees the walk is run on.  An entry is a path relative    *)
(* to the root, whether it is a directory, and what the operating system   *)
(* answers for it: for a file "text", "binary" (http.DetectContentType     *)
(* gives no text/ type), "openerr" (os.Open fails) or "readerr"            *)
(* (file.Read fails); for a directory "ok", "perm" (os.ReadDir fails with  *)
(* a permission error) or "ioerr" (os.ReadDir fails otherwise, nothing     *)
(* read).  rootSt is what WalkDir meets at the root: "ok", "perm" or        *)
(* "ioerr".  gitignore is the state of <root>/.gitignore ("absent", "dir", *)
(* "staterr", "readerr" or "ok") and the paths its rules name: the paths   *)
(* on which the matcher answers true when the file could be loaded.        *)
(***************************************************************************)

F(path, st) == [path |-> path, isDir |-> FALSE, st |-> st]
D(path, st) == [path |-> path, isDir |-> TRUE, st |-> st]

pGit         == << ".", "g", "i", "t" >>
pGitHEAD     == << ".", "g", "i", "t", "/", "H", "E", "A", "D" >>
pGitignore   == << ".", "g", "i", "t", "i", "g", "n", "o", "r", "e" >>
pNodeModules == << "n", "o", "d", "e", "_", "m", "o", "d", "u", "l", "e", "s" >>
pNodeDgo     == pNodeModules \o << "/", "d", ".", "g", "o" >>
pA           == << "a" >>
pABgo        == << "a", "/", "b", ".", "g", "o" >>
pACtxt       == << "a", "/", "c", ".", "t", "x", "t" >>
pAYgo        == << "a", "/", "y", ".", "g", "o" >>
pASub        == << "a", "/", "s", "u", "b" >>
pASubEgo     == << "a", "/", "s", "u", "b", "/", "e", ".", "g", "o" >>
pAd          == << "a", ".", "d" >>
pAdYgo       == << "a", ".", "d", "/", "y", ".", "g", "o" >>
pX           == << "x" >>
pXA          == << "x", "/", "a" >>
pXAYgo       == << "x", "/", "a", "/", "y", ".", "g", "o" >>
pRgo         == << "r", ".", "g", "o" >>
pIg          == << "i", "g" >>
pIgZgo       == << "i", "g", "/", "z", ".", "g", "o" >>
pTgo         == << "t", ".", "g", "o" >>
pBingo       == << "b", "i", "n", ".", "g", "o" >>
pUngo        == << "u", "n", ".", "g", "o" >>
pRdtxt       == << "r", "d", ".", "t", "x", "t" >>
pB           == << "b" >>
pBEgo        == << "b", "/", "e", ".", "g", "o" >>
pS           == << "s" >>
pSGit        == << "s", "/", ".", "g", "i", "t" >>
pSGitHEAD    == << "s", "/", ".", "g", "i", "t", "/", "H", "E", "A", "D" >>
pSCgo        == << "s", "/", "c", ".", "g", "o" >>

NoGitignore == [state |-> "absent", ignored |-> {}]

\* The scenario of the specification: a/b.go, a/c.txt, node_modules/d.go, .git/HEAD.
TreeScenario ==
    [rootSt    |-> "ok",
     gitignore |-> NoGitignore,
     entries   |-> { D(pA, "ok"), F(pABgo, "text"), F(pACtxt, "text"),
                     D(pNodeModules, "ok"), F(pNodeDgo, "text"),
                     D(pGit, "ok"), F(pGitHEAD, "text") }]

\* The same tree with an ignore-file holding a rule for a/c.txt.
TreeIgnoreFile ==
    [rootSt    |-> "ok",
     gitignore |-> [state |-> "ok", ignored |-> { pACtxt }],
     entries   |-> TreeScenario.entries \cup { F(pGitignore, "text") }]

\* Nested directories, a directory of the same name below another one, a
\* sibling whose name starts alike, a file at the root, an ignored directory.
TreeDirs ==
    [rootSt    |-> "ok",
     gitignore |-> [state |-> "ok", ignored |-> { pIg \o << "/" >> }],
     entries   |-> { D(pA, "ok"), F(pAYgo, "text"),
                     D(pASub, "ok"), F(pASubEgo, "text"),
                     D(pX, "ok"), D(pXA, "ok"), F(pXAYgo, "text"),
                     D(pAd, "ok"), F(pAdYgo, "text"),
                     F(pRgo, "text"),
                     D(pIg, "ok"), F(pIgZgo, "text"),
                     F(pGitignore, "text") }]

\* Binary and unreadable files, an unreadable directory, a nested .git, and
\* a directory named .gitignore.
TreeClasses ==
    [rootSt    |-> "ok",
     gitignore |-> [state |-> "dir", ignored |-> {}],
     entries   |-> { F(pTgo, "text"), F(pBingo, "binary"),
                     F(pUngo, "openerr"), F(pRdtxt, "readerr"),
                     D(pB, "perm"), F(pBEgo, "text"),
                     D(pS, "ok"), D(pSGit, "ok"), F(pSGitHEAD, "text"),
                     F(pSCgo, "text"),
                     D(pGitignore, "ioerr") }]

\* A root whose entries cannot be read, and an ignore-file that cannot be stat'ed.
TreeRootDenied ==
    [rootSt    |-> "perm",
     gitignore |-> [state |-> "staterr", ignored |-> {}],
     entries   |-> { F(pTgo, "text") }]

\* A root that cannot be stat'ed any more when WalkDir starts (removed after
\* main's own check).
TreeRootGone ==
    [rootSt    |-> "ioerr",
     gitignore |-> NoGitignore,
     entries   |-> {}]

\* An ignore-file with a rule for t.go that gitignore.NewFromFile fails on.
TreeBadIgnore ==
    [rootSt    |-> "ok",
     gitignore |-> [state |-> "readerr", ignored |-> { pTgo }],
     entries   |-> { F(pGitignore, "text"), F(pTgo, "text") }]

Trees ==
    << TreeScenario, TreeIgnoreFile, TreeDirs, TreeClasses, TreeRootDenied,
       TreeRootGone, TreeBadIgnore >>

\* The names of a directory in the order os.ReadDir returns them.
SortSet[S \in SUBSET Str] ==
    IF S = {} THEN << >>
    ELSE The({ Insert[SortSet[S \ {x}], x] : x \in {The(S)} })

\* The entry of tree t at path.
Entry(t, path) == CHOOSE e \in t.entries : e.path = path

\* os.ReadDir(dir): the entries directly inside dir, sorted by name.
ReadDir(t, dir) ==
    SortSet[{e.path : e \in {x \in t.entries :
                 Dir[x.path] = (IF dir = << >> THEN << "." >> ELSE dir)}}]

(***************************************************************************)
(* The ignore matcher: an opaque capability answering Ignore(path).        *)
(***************************************************************************)

NilMatcher == [isNil |-> TRUE, ignored |-> {}]

Ignore(matcher, path) == path \in matcher.ignored

\* A variant of LoadGitignoreMatcher that builds a matcher from the rules
\* whatever the state of the ignore-file is.
LoadGitignoreMatcherAnyState(t) ==
    [isNil |-> FALSE, ignored |-> t.gitignore.ignored]

\* LoadGitignoreMatcher followed by main's SetGitignoreMatcher: a matcher
\* only when .gitignore is a file that could be parsed.
LoadGitignoreMatcher(t) ==
    IF t.gitignore.state = "ok"
    THEN [isNil |-> FALSE, ignored |-> t.gitignore.ignored]
    ELSE NilMatcher

(***************************************************************************)
(* The settings cache (internal/app.go, internal/utils.go): the entry of   *)
(* rootDir in app.cache and in the cache file.                             *)
(***************************************************************************)

NoEntry == [present |-> FALSE, includes |-> << >>, excludes |-> << >>,
            filterMode |-> ExcludeMode]

CacheEntry(inc, exc, mode) ==
    [present |-> TRUE, includes |-> inc, excludes |-> exc, filterMode |-> mode]

sGoGlob   == << "*", ".", "g", "o" >>
sDirA     == << "a", "/" >>

\* What the cache file may hold for rootDir when the program starts.
SavedEntries ==
    { NoEntry,
      CacheEntry(sGoGlob, << >>, IncludeMode),
      CacheEntry(<< >>, << >>, ExcludeMode) }

\* What the filter view's buffer may hold when Enter is pressed.
Buffers ==
    { << >>,
      << "," >>,
      sGoGlob,
      sDirA,
      << "/" >>,
      << "[" >>,
      pABgo,
      << " ", "x", ",", " ", "*", ".", "t", "x", "t", " ", "\n" >> }

(***************************************************************************)
(* State.                                                                  *)
(***************************************************************************)

VARIABLES
    tree,              \* the directory tree below rootDir (never written)
    gitignoreMatcher,  \* app.gitignoreMatcher
    allFiles,          \* app.allFiles
    fileList,          \* app.fileList
    selectedFiles,     \* app.selectedFiles (the keys mapped to true)
    currentLine,       \* app.currentLine
    filterMode,        \* app.filterMode
    includes,          \* app.includes
    excludes,          \* app.excludes
    mutex,             \* app.mutex: "none" or the thread holding it
    isLoading,         \* app.isLoading
    loadingError,      \* app.loadingError
    cacheFilePath,     \* app.cacheFilePath: "" or "known"
    cache,             \* app.cache[app.rootDir]
    cacheFile,         \* the entry of rootDir in the cache file
    cacheWritable,     \* whether saveCache can write the cache file
    pc,                \* position of the background goroutine of main
    files,             \* ListFiles' local slice "files"
    pending,           \* entries WalkDir has still to visit, in order
    listErr,           \* the error ListFiles returned
    screen,            \* what Layout rendered last
    currentView,       \* g.CurrentView()
    reader,            \* position of a goroutine that calls app.FileList()
    opened,            \* the files the last step of the goroutine of main or
                       \* of the UI thread called os.Open or os.ReadFile on
    sniffed,           \* the files http.DetectContentType has classified
    filterBuffer,      \* the buffer of the filter view
    clipboard,         \* the blocks last written to the system clipboard
    statusMsg,         \* the message last handed to updateStatus
    otherCache,        \* app.cache[d] for a directory d other than rootDir
    otherFile,         \* the entry of that directory in the cache file
    showCacheView,     \* app.showCacheView
    awaitingCacheClearConfirmation,  \* app.awaitingCacheClearConfirmation
    cacheViewContent,  \* app.cacheViewContent
    filePath,          \* saveCache's parameter filePath
    data,              \* saveCache's local "data": the marshalled cache
    tempFile,          \* what the file filePath + ".tmp" holds
    savePc,            \* position of a call of saveCache
    saveErr            \* the error the last call of saveCache returned

vars == << tree, gitignoreMatcher, allFiles, fileList, selectedFiles,
           currentLine, filterMode, includes, excludes, mutex, isLoading,
           loadingError, cacheFilePath, cache, cacheFile, cacheWritable,
           pc, files, pending, listErr, screen, currentView, reader,
           opened, sniffed, filterBuffer, clipboard, statusMsg,
           otherCache, otherFile, showCacheView,
           awaitingCacheClearConfirmation, cacheViewContent, filePath, data,
           tempFile, savePc, saveErr >>

filterVars == << allFiles, fileList, selectedFiles, currentLine, filterMode,
                 includes, excludes >>
cacheVars  == << cacheFilePath, cache, cacheFile, cacheWritable, otherCache,
                 otherFile >>
cacheViewVars == << showCacheView, awaitingCacheClearConfirmation,
                    cacheViewContent >>
saveVars   == << filePath, data, tempFile, savePc, saveErr >>
walkVars   == << pc, files, pending, listErr >>
envVars    == << tree, gitignoreMatcher >>
loadVars   == << isLoading, loadingError >>
uiVars     == << screen, currentView >>
viewVars   == << filterBuffer, clipboard, statusMsg >>

\* A message of the status bar: its text and, for a copy, the count in it.
Status(text, count) == [text |-> text, count |-> count]

\* saveCache: the cache file takes the new entry when it can be written.
saveCache(entry, old, writable) == IF writable THEN entry ELSE old

\* NewApp: defaults, then the settings of the cache entry when the cache
\* path is known and the entry exists; otherwise the entry is created.
NewApp(pathKnown, saved) ==
    IF pathKnown /\ saved.present
    THEN [includes |-> saved.includes, excludes |-> saved.excludes,
          filterMode |-> saved.filterMode, cache |-> saved]
    ELSE [includes |-> << >>, excludes |-> DefaultExcludes,
          filterMode |-> ExcludeMode,
          cache |-> IF pathKnown
                    THEN CacheEntry(<< >>, DefaultExcludes, ExcludeMode)
                    ELSE NoEntry]

\* What the cache file may hold for another directory when the program
\* starts.
OtherEntries == { NoEntry, CacheEntry(sDirA, << >>, ExcludeMode) }

\* What the file filePath + ".tmp" holds when it does not exist, and when a
\* write to it has failed half way.
Absent  == [state |-> "absent", content |-> << NoEntry, NoEntry >>]
Partial == [state |-> "partial", content |-> << NoEntry, NoEntry >>]

\* What it holds after a complete write of the marshalled cache c: the
\* entry of rootDir and the entry of the other directory.
Complete(c) == [state |-> "complete", content |-> c]

\* The text of the status bar of the cache view, and of the prompt.
CacheStatusText == "Ctrl+D: Clear Cache"
PromptText      == "CLEAR CACHE? (y/n)"

\* The state when main starts the background goroutine: NewApp,
\* LoadGitignoreMatcher and SetGitignoreMatcher have run. The cache file
\* holds the entry "other" for another directory, and loadCache can read
\* the file or fails ("readable").
AppInit(other, readable) ==
    /\ tree \in Range(Trees)
    /\ gitignoreMatcher = LoadGitignoreMatcher(tree)
    /\ \E pathKnown \in BOOLEAN, saved \in SavedEntries, writable \in BOOLEAN :
          LET app == NewApp(pathKnown, IF readable THEN saved ELSE NoEntry)
          IN  /\ pathKnown \/ (saved = NoEntry /\ other = NoEntry /\ ~writable)
              /\ otherCache = IF pathKnown /\ readable THEN other ELSE NoEntry
              /\ otherFile = IF pathKnown
                             THEN saveCache(otherCache, other, writable)
                             ELSE other
              /\ includes = app.includes
              /\ excludes = app.excludes
              /\ filterMode = app.filterMode
              /\ cacheFilePath = IF pathKnown THEN "known" ELSE ""
              /\ cache = app.cache
              /\ cacheWritable = writable
              /\ cacheFile = IF pathKnown
                             THEN saveCache(app.cache, saved, writable)
                             ELSE saved
    /\ allFiles = << >>
    /\ fileList = << >>
    /\ selectedFiles = {}
    /\ currentLine = 0
    /\ mutex = "none"
    /\ isLoading = TRUE
    /\ loadingError = Nil
    /\ pc = "ListFiles"
    /\ files = << >>
    /\ pending = << >>
    /\ listErr = Nil
    /\ screen = "none"
    /\ currentView = ""
    /\ reader = "idle"
    /\ opened = {}
    /\ sniffed = << >>
    /\ filterBuffer = << >>
    /\ clipboard = << >>
    /\ statusMsg = Status("", 0)
    /\ showCacheView = FALSE
    /\ awaitingCacheClearConfirmation = FALSE
    /\ cacheViewContent = ""
    /\ filePath = ""
    /\ data = << NoEntry, NoEntry >>
    /\ tempFile = Absent
    /\ savePc = "idle"
    /\ saveErr = Nil

\* The program started on a cache file it could read and that holds no
\* entry of another directory.
Init == AppInit(NoEntry, TRUE)

(***************************************************************************)
(* ListFiles: the walk.                                                    *)
(***************************************************************************)

\* The callback's answer when WalkDir reports an error for the entry.
walkFnError(err) == IF err = "perm" THEN "SkipDir" ELSE "nil"

\* A variant of walkFnDir that does not ask the ignore matcher.
walkFnDirNoIgnore(matcher, relPathSlash) ==
    IF \E rawPattern \in Range(Split[DefaultExcludes, ","]) :
           \E pattern \in {TrimSpace[rawPattern]} :
               /\ pattern # << >>
               /\ HasSuffix[pattern, << "/" >>]
               /\ HasPrefix[relPathSlash \o << "/" >>, ToSlash[pattern]]
    THEN "SkipDir"
    ELSE IF Base[relPathSlash] = pGit
    THEN "SkipDir"
    ELSE "nil"

\* A variant of walkFnDir without the loop over DefaultExcludes.
walkFnDirNoDefault(matcher, relPathSlash) ==
    IF ~matcher.isNil /\ Ignore(matcher, relPathSlash \o << "/" >>)
    THEN "SkipDir"
    ELSE IF Base[relPathSlash] = pGit
    THEN "SkipDir"
    ELSE "nil"

\* The callback on a directory other than the root.
walkFnDir(matcher, relPathSlash) ==
    IF ~matcher.isNil /\ Ignore(matcher, relPathSlash \o << "/" >>)
    THEN "SkipDir"
    ELSE IF \E rawPattern \in Range(Split[DefaultExcludes, ","]) :
               \E pattern \in {TrimSpace[rawPattern]} :
                   /\ pattern # << >>
                   /\ HasSuffix[pattern, << "/" >>]
                   /\ HasPrefix[relPathSlash \o << "/" >>, ToSlash[pattern]]
    THEN "SkipDir"
    ELSE IF Base[relPathSlash] = pGit
    THEN "SkipDir"
    ELSE "nil"

\* A variant of walkFnFile that does not ask the ignore matcher.
walkFnFileNoIgnore(matcher, relPathSlash, st) ==
    IF relPathSlash = pGitignore THEN FALSE
    ELSE IF st = "openerr" THEN FALSE
    ELSE IF st = "readerr" THEN FALSE
    ELSE IF st # "text" THEN FALSE
    ELSE TRUE

\* A variant of walkFnFile that does not look at the content type.
walkFnFileNoSniff(matcher, relPathSlash, st) ==
    IF relPathSlash = pGitignore THEN FALSE
    ELSE IF ~matcher.isNil /\ Ignore(matcher, relPathSlash) THEN FALSE
    ELSE IF st = "openerr" THEN FALSE
    ELSE IF st = "readerr" THEN FALSE
    ELSE TRUE

\* A variant of walkFnFile without the test for the root's .gitignore.
walkFnFileKeepsGitignore(matcher, relPathSlash, st) ==
    IF ~matcher.isNil /\ Ignore(matcher, relPathSlash) THEN FALSE
    ELSE IF st = "openerr" THEN FALSE
    ELSE IF st = "readerr" THEN FALSE
    ELSE IF st # "text" THEN FALSE
    ELSE TRUE

\* The callback on a file: TRUE when the path is appended to files.
walkFnFile(matcher, relPathSlash, st) ==
    IF relPathSlash = pGitignore THEN FALSE
    ELSE IF ~matcher.isNil /\ Ignore(matcher, relPathSlash) THEN FALSE
    ELSE IF st = "openerr" THEN FALSE
    ELSE IF st = "readerr" THEN FALSE
    ELSE IF st # "text" THEN FALSE
    ELSE TRUE

\* Whether the callback reaches os.Open for a file.
walkFnOpens(matcher, relPathSlash) ==
    /\ relPathSlash # pGitignore
    /\ ~(~matcher.isNil /\ Ignore(matcher, relPathSlash))

\* Whether the callback reaches http.DetectContentType for a file.
walkFnSniffs(matcher, relPathSlash, st) ==
    /\ walkFnOpens(matcher, relPathSlash)
    /\ st # "openerr"
    /\ st # "readerr"

\* refreshContentView: the files it reads, the one under the cursor.
refreshContentView(list, line) ==
    IF Len(list) > 0 /\ line >= 0 /\ line < Len(list)
    THEN {list[line + 1]}
    ELSE {}

\* resetStatus: the files it reads to count characters and tokens, the
\* selected ones.
resetStatus(selected) == selected

\* refreshFilesView: the files it reads, those of the resetStatus it ends
\* with.  (Its clamp of currentLine finds the cursor inside the list.)
refreshFilesView(selected) == resetStatus(selected)

\* The main view, as Layout renders it once the views exist: the filter
\* view's buffer is rewritten with the pattern string of the mode, the
\* files view and the content view are refreshed.
GrepApplicationView ==
    /\ filterBuffer' = (IF filterMode' = ExcludeMode THEN excludes' ELSE includes')
    /\ opened' = refreshFilesView(selectedFiles')
                     \cup refreshContentView(fileList', currentLine')

\* A variant of applyFilters that filters the list on display, not allFiles.
applyFiltersOfFileList ==
    \E filtered \in {filteredList(fileList, filterMode', includes', excludes')} :
        /\ fileList' = filtered
        /\ selectedFiles' = {file \in Range(filtered) : file \in selectedFiles}
        /\ currentLine' = IF currentLine >= Len(filtered)
                          THEN max(0, Len(filtered) - 1)
                          ELSE currentLine
        /\ mutex' = "none"
        /\ opened' = IF screen = "main"
                      THEN refreshFilesView(selectedFiles')
                              \cup refreshContentView(filtered, currentLine')
                      ELSE {}
        /\ sniffed' = sniffed

\* A variant of applyFilters that classifies the files it keeps again.
applyFiltersSniffing ==
    \E filtered \in {filteredList(allFiles', filterMode', includes', excludes')} :
        /\ fileList' = filtered
        /\ selectedFiles' = {file \in Range(filtered) : file \in selectedFiles}
        /\ currentLine' = IF currentLine >= Len(filtered)
                          THEN max(0, Len(filtered) - 1)
                          ELSE currentLine
        /\ mutex' = "none"
        /\ opened' = Range(filtered)
        /\ sniffed' = sniffed \o filtered

\* A variant of applyFilters that keeps the selection as it is.
applyFiltersKeepsSelection ==
    \E filtered \in {filteredList(allFiles', filterMode', includes', excludes')} :
        /\ fileList' = filtered
        /\ selectedFiles' = selectedFiles
        /\ currentLine' = IF currentLine >= Len(filtered)
                          THEN max(0, Len(filtered) - 1)
                          ELSE currentLine
        /\ mutex' = "none"
        /\ opened' = IF screen = "main"
                      THEN refreshFilesView(selectedFiles')
                              \cup refreshContentView(filtered, currentLine')
                      ELSE {}
        /\ sniffed' = sniffed

\* A variant of applyFilters that leaves the cursor where it is.
applyFiltersKeepsCursor ==
    \E filtered \in {filteredList(allFiles', filterMode', includes', excludes')} :
        /\ fileList' = filtered
        /\ selectedFiles' = {file \in Range(filtered) : file \in selectedFiles}
        /\ currentLine' = currentLine
        /\ mutex' = "none"
        /\ opened' = IF screen = "main"
                      THEN refreshFilesView(selectedFiles')
                              \cup refreshContentView(filtered, currentLine')
                      ELSE {}
        /\ sniffed' = sniffed

\* A variant of applyFilters without the deferred Unlock.
applyFiltersKeepsLock ==
    \E filtered \in {filteredList(allFiles', filterMode', includes', excludes')} :
        /\ fileList' = filtered
        /\ selectedFiles' = {file \in Range(filtered) : file \in selectedFiles}
        /\ currentLine' = IF currentLine >= Len(filtered)
                          THEN max(0, Len(filtered) - 1)
                          ELSE currentLine
        /\ mutex' = mutex
        /\ opened' = IF screen = "main"
                      THEN refreshFilesView(selectedFiles')
                              \cup refreshContentView(filtered, currentLine')
                      ELSE {}
        /\ sniffed' = sniffed

\* A variant of applyFilters whose list depends on the loading state.
applyFiltersWhenLoaded ==
    \E filtered \in {IF isLoading THEN << >>
                      ELSE filteredList(allFiles', filterMode', includes', excludes')} :
        /\ fileList' = filtered
        /\ selectedFiles' = {file \in Range(filtered) : file \in selectedFiles}
        /\ currentLine' = IF currentLine >= Len(filtered)
                          THEN max(0, Len(filtered) - 1)
                          ELSE currentLine
        /\ mutex' = "none"
        /\ opened' = IF screen = "main"
                      THEN refreshFilesView(selectedFiles')
                              \cup refreshContentView(filtered, currentLine')
                      ELSE {}
        /\ sniffed' = sniffed

\* applyFilters, called with the mutex held and after the caller's
\* assignments (hence the primes on what it reads): the new fileList, the
\* selection kept for the visible files, the cursor pulled back into the
\* list, the deferred Unlock, and the refresh of the files view and of the
\* content view it schedules, which read files once the views exist.
applyFilters ==
    \E filtered \in {filteredList(allFiles', filterMode', includes', excludes')} :
        /\ fileList' = filtered
        /\ selectedFiles' = {file \in Range(filtered) : file \in selectedFiles}
        /\ currentLine' = IF currentLine >= Len(filtered)
                          THEN max(0, Len(filtered) - 1)
                          ELSE currentLine
        /\ mutex' = "none"
        /\ opened' = IF screen = "main"
                      THEN refreshFilesView(selectedFiles')
                              \cup refreshContentView(filtered, currentLine')
                      ELSE {}
        /\ sniffed' = sniffed

\* ListFiles takes the mutex and WalkDir starts at the root.
ListFilesBegin ==
    /\ opened' = {}
    /\ sniffed' = sniffed
    /\ pc = "ListFiles"
    /\ mutex = "none"
    /\ mutex' = "worker"
    /\ files' = << >>
    /\ pending' = << << >> >>
    /\ pc' = "WalkDir"
    /\ UNCHANGED << filterVars, cacheVars, envVars, cacheViewVars, saveVars, reader, viewVars, loadVars, uiVars, listErr >>

\* WalkDir visits the root: the callback returns nil for it, then the root
\* is read; a failed read is reported to the callback.
WalkRoot ==
    /\ opened' = {}
    /\ sniffed' = sniffed
    /\ pc = "WalkDir"
    /\ pending # << >>
    /\ Head(pending) = << >>
    /\ pending' = IF tree.rootSt = "ok" THEN ReadDir(tree, << >>)
                  ELSE IF walkFnError(tree.rootSt) = "SkipDir" THEN << >>
                  ELSE << >>
    /\ UNCHANGED << filterVars, cacheVars, envVars, cacheViewVars, saveVars, reader, viewVars, loadVars, uiVars,
                    mutex, files, pc, listErr >>

\* A variant of WalkDirectory in which a directory that cannot be read ends
\* the walk.
WalkDirectoryAbortOnError ==
    /\ opened' = {}
    /\ sniffed' = sniffed
    /\ pc = "WalkDir"
    /\ pending # << >>
    /\ Head(pending) # << >>
    /\ LET e == Entry(tree, Head(pending))
       IN  /\ e.isDir
           /\ pending' =
                 IF walkFnDir(gitignoreMatcher, e.path) = "SkipDir"
                 THEN Tail(pending)
                 ELSE IF e.st = "ok"
                 THEN ReadDir(tree, e.path) \o Tail(pending)
                 ELSE << >>
    /\ UNCHANGED << filterVars, cacheVars, envVars, cacheViewVars, saveVars, reader, viewVars, loadVars, uiVars,
                    mutex, files, pc, listErr >>

\* WalkDir visits a directory below the root.
WalkDirectory ==
    /\ opened' = {}
    /\ sniffed' = sniffed
    /\ pc = "WalkDir"
    /\ pending # << >>
    /\ Head(pending) # << >>
    /\ LET e == Entry(tree, Head(pending))
       IN  /\ e.isDir
           /\ pending' =
                 IF walkFnDir(gitignoreMatcher, e.path) = "SkipDir"
                 THEN Tail(pending)
                 ELSE IF e.st = "ok"
                 THEN ReadDir(tree, e.path) \o Tail(pending)
                 ELSE IF walkFnError(e.st) = "SkipDir" THEN Tail(pending)
                 ELSE Tail(pending)
    /\ UNCHANGED << filterVars, cacheVars, envVars, cacheViewVars, saveVars, reader, viewVars, loadVars, uiVars,
                    mutex, files, pc, listErr >>

\* WalkDir visits a file: it is opened, sniffed and appended when text.
WalkFile ==
    /\ pc = "WalkDir"
    /\ pending # << >>
    /\ Head(pending) # << >>
    /\ LET e == Entry(tree, Head(pending))
       IN  /\ ~e.isDir
           /\ files' = IF walkFnFile(gitignoreMatcher, e.path, e.st)
                       THEN Append(files, e.path)
                       ELSE files
           /\ opened' = IF walkFnOpens(gitignoreMatcher, e.path)
                        THEN {e.path}
                        ELSE {}
           /\ sniffed' = IF walkFnSniffs(gitignoreMatcher, e.path, e.st)
                         THEN Append(sniffed, e.path)
                         ELSE sniffed
    /\ pending' = Tail(pending)
    /\ UNCHANGED << filterVars, cacheVars, envVars, cacheViewVars, saveVars, reader, viewVars, loadVars, uiVars,
                    mutex, pc, listErr >>

\* A variant of ListFilesEnd that stores files in the order of the walk.
ListFilesEndUnsorted ==
    /\ pc = "WalkDir"
    /\ pending = << >>
    /\ mutex = "worker"
    /\ allFiles' = files
    /\ UNCHANGED << filterMode, includes, excludes >>
    /\ applyFilters
    /\ listErr' = Nil
    /\ pc' = "SetLoadingComplete"
    /\ UNCHANGED << cacheVars, envVars, cacheViewVars, saveVars, reader, viewVars, loadVars, uiVars, files, pending >>

\* WalkDir has returned: the callback never returns an error other than
\* SkipDir, so err is nil; files is sorted and stored, applyFilters runs
\* and releases the mutex.
ListFilesEnd ==
    /\ pc = "WalkDir"
    /\ pending = << >>
    /\ mutex = "worker"
    /\ allFiles' = SortStrings[files]
    /\ UNCHANGED << filterMode, includes, excludes >>
    /\ applyFilters
    /\ listErr' = Nil
    /\ pc' = "SetLoadingComplete"
    /\ UNCHANGED << cacheVars, envVars, cacheViewVars, saveVars, reader, viewVars, loadVars, uiVars, files, pending >>

\* A variant of SetLoadingComplete after which the goroutine walks again.
SetLoadingCompleteThenAgain ==
    /\ opened' = {}
    /\ sniffed' = sniffed
    /\ pc = "SetLoadingComplete"
    /\ mutex = "none"
    /\ isLoading' = FALSE
    /\ loadingError' = listErr
    /\ pc' = "ListFiles"
    /\ UNCHANGED << filterVars, cacheVars, envVars, cacheViewVars, saveVars, reader, viewVars, uiVars, mutex, files,
                    pending, listErr >>

\* A variant of SetLoadingComplete that runs before ListFiles.
SetLoadingCompleteFirst ==
    /\ opened' = {}
    /\ sniffed' = sniffed
    /\ pc = "ListFiles"
    /\ mutex = "none"
    /\ isLoading
    /\ isLoading' = FALSE
    /\ loadingError' = listErr
    /\ UNCHANGED << filterVars, cacheVars, envVars, cacheViewVars, saveVars, reader, viewVars, uiVars, mutex,
                    walkVars >>

\* main's goroutine: app.SetLoadingComplete(err).
SetLoadingComplete ==
    /\ opened' = {}
    /\ sniffed' = sniffed
    /\ pc = "SetLoadingComplete"
    /\ mutex = "none"
    /\ isLoading' = FALSE
    /\ loadingError' = listErr
    /\ pc' = "done"
    /\ UNCHANGED << filterVars, cacheVars, envVars, cacheViewVars, saveVars, reader, viewVars, uiVars, mutex, files,
                    pending, listErr >>

(***************************************************************************)
(* The UI thread: Layout and the key handlers.                             *)
(***************************************************************************)

\* What Layout renders: the loading view, the error view, the cache view
\* when it is to be shown, or the main view.
layoutScreen(showCache) ==
    IF isLoading THEN "loading"
    ELSE IF loadingError # Nil THEN "error"
    ELSE IF showCache THEN CacheViewName
    ELSE "main"

\* The view that has the focus after Layout: layoutCacheView gives it to
\* the cache view when it creates it, and the main view gives it to the
\* files view when no view has it or the cache view had it.
layoutFocus(showCache) ==
    IF layoutScreen(showCache) = CacheViewName
    THEN IF screen = CacheViewName THEN currentView ELSE CacheViewName
    ELSE IF layoutScreen(showCache) = "main"
            /\ currentView \in {"", CacheViewName}
    THEN FilesViewName
    ELSE currentView

\* The status bar after layoutCacheView: the text of the cache view unless
\* a confirmation is awaited.
layoutCacheStatus(awaiting) ==
    IF awaiting THEN statusMsg ELSE Status(CacheStatusText, 0)

\* Layout reads the loading state under the mutex and renders the loading
\* view, the error view, the cache view or the main view; the main view
\* gives the focus to the files view when no view has it and refreshes its
\* views.
Layout ==
    /\ mutex = "none"
    /\ screen' = layoutScreen(showCacheView)
    /\ currentView' = layoutFocus(showCacheView)
    /\ UNCHANGED filterVars
    /\ IF screen' = "main"
       THEN GrepApplicationView /\ UNCHANGED statusMsg
       ELSE /\ opened' = {}
            /\ UNCHANGED filterBuffer
            /\ statusMsg' = IF screen' = CacheViewName
                            THEN layoutCacheStatus(awaitingCacheClearConfirmation)
                            ELSE statusMsg
    /\ UNCHANGED << cacheVars, envVars, cacheViewVars, saveVars, reader, sniffed, clipboard,
                    loadVars, walkVars, mutex >>

\* Tab: the focus moves between the files view and the filter view, and the
\* Layout the handler schedules renders the main view.
SwitchFocus ==
    /\ screen = "main"
    /\ currentView' = IF currentView = FilesViewName
                      THEN FilterViewName
                      ELSE FilesViewName
    /\ UNCHANGED filterVars
    /\ GrepApplicationView
    /\ UNCHANGED << cacheVars, envVars, cacheViewVars, saveVars, reader, sniffed, clipboard, statusMsg,
                    loadVars, walkVars, mutex, screen >>

\* A variant of ApplyFilter that gives both pattern strings the buffer.
ApplyFilterBoth(buffer) ==
    /\ currentView = FilterViewName
    /\ mutex = "none"
    /\ \E pattern \in {TrimSpace[buffer]} :
          excludes' = pattern /\ includes' = pattern
    /\ IF cacheFilePath # ""
       THEN /\ cache' = CacheEntry(includes', excludes', filterMode)
            /\ cacheFile' = saveCache(cache', cacheFile, cacheWritable)
            /\ otherFile' = saveCache(otherCache, otherFile, cacheWritable)
       ELSE UNCHANGED << cache, cacheFile, otherFile >>
    /\ UNCHANGED << allFiles, filterMode >>
    /\ applyFilters
    /\ currentView' = FilesViewName
    /\ filterBuffer' = (IF filterMode = ExcludeMode THEN excludes' ELSE includes')
    /\ UNCHANGED << cacheFilePath, cacheWritable, otherCache, envVars, cacheViewVars, saveVars, reader, clipboard,
                    statusMsg, loadVars, walkVars, screen >>

\* Enter in the filter view: the trimmed buffer becomes the pattern string
\* of the current mode, the cache entry is updated and saved, applyFilters
\* recomputes the list and the focus returns to the files view.
ApplyFilter(buffer) ==
    /\ currentView = FilterViewName
    /\ mutex = "none"
    /\ \E pattern \in {TrimSpace[buffer]} :
          IF filterMode = ExcludeMode
          THEN excludes' = pattern /\ UNCHANGED includes
          ELSE includes' = pattern /\ UNCHANGED excludes
    /\ IF cacheFilePath # ""
       THEN /\ cache' = CacheEntry(includes', excludes', filterMode)
            /\ cacheFile' = saveCache(cache', cacheFile, cacheWritable)
            /\ otherFile' = saveCache(otherCache, otherFile, cacheWritable)
       ELSE UNCHANGED << cache, cacheFile, otherFile >>
    /\ UNCHANGED << allFiles, filterMode >>
    /\ applyFilters
    /\ currentView' = FilesViewName
    /\ filterBuffer' = (IF filterMode = ExcludeMode THEN excludes' ELSE includes')
    /\ UNCHANGED << cacheFilePath, cacheWritable, otherCache, envVars, cacheViewVars, saveVars, reader, clipboard,
                    statusMsg, loadVars, walkVars, screen >>

\* Esc in the filter view: the focus returns to the files view, and the
\* Layout the handler schedules renders the main view.
CancelFilter ==
    /\ currentView = FilterViewName
    /\ currentView' = FilesViewName
    /\ UNCHANGED filterVars
    /\ GrepApplicationView
    /\ UNCHANGED << cacheVars, envVars, cacheViewVars, saveVars, reader, sniffed, clipboard, statusMsg,
                    loadVars, walkVars, mutex, screen >>

\* A variant of ToggleFilterMode that leaves the cache alone.
ToggleFilterModeUnsaved ==
    /\ currentView = FilterViewName
    /\ mutex = "none"
    /\ filterMode' = IF filterMode = ExcludeMode THEN IncludeMode ELSE ExcludeMode
    /\ UNCHANGED << cache, cacheFile, otherFile >>
    /\ UNCHANGED << allFiles, fileList, selectedFiles, currentLine, includes,
                    excludes >>
    /\ GrepApplicationView
    /\ UNCHANGED << cacheFilePath, cacheWritable, otherCache, envVars, cacheViewVars, saveVars, reader, sniffed,
                    clipboard, statusMsg, loadVars, walkVars, mutex, uiVars >>

\* Ctrl+F in the filter view: the mode flips and, when the cache entry
\* exists, the entry is updated and saved; the Layout the handler schedules
\* renders the main view.
ToggleFilterMode ==
    /\ currentView = FilterViewName
    /\ mutex = "none"
    /\ filterMode' = IF filterMode = ExcludeMode THEN IncludeMode ELSE ExcludeMode
    /\ IF cacheFilePath # "" /\ cache.present
       THEN /\ cache' = [cache EXCEPT !.filterMode = filterMode']
            /\ cacheFile' = saveCache(cache', cacheFile, cacheWritable)
            /\ otherFile' = saveCache(otherCache, otherFile, cacheWritable)
       ELSE UNCHANGED << cache, cacheFile, otherFile >>
    /\ UNCHANGED << allFiles, fileList, selectedFiles, currentLine, includes,
                    excludes >>
    /\ GrepApplicationView
    /\ UNCHANGED << cacheFilePath, cacheWritable, otherCache, envVars, cacheViewVars, saveVars, reader, sniffed,
                    clipboard, statusMsg, loadVars, walkVars, mutex, uiVars >>

\* A variant of EditFilterBuffer that filters as the user types.
EditFilterBufferLive(buffer) ==
    /\ currentView = FilterViewName
    /\ mutex = "none"
    /\ filterBuffer' = buffer
    /\ \E pattern \in {TrimSpace[buffer]} :
          IF filterMode = ExcludeMode
          THEN excludes' = pattern /\ UNCHANGED includes
          ELSE includes' = pattern /\ UNCHANGED excludes
    /\ UNCHANGED << allFiles, filterMode >>
    /\ applyFilters
    /\ UNCHANGED << cacheVars, envVars, cacheViewVars, saveVars, reader, clipboard, statusMsg, loadVars,
                    walkVars, uiVars >>

\* A key typed in the filter view: the view's editor changes the buffer of
\* the view and nothing else.
EditFilterBuffer(buffer) ==
    /\ currentView = FilterViewName
    /\ filterBuffer' = buffer
    /\ opened' = {}
    /\ UNCHANGED << filterVars, cacheVars, envVars, cacheViewVars, saveVars, reader, sniffed, clipboard,
                    statusMsg, loadVars, walkVars, mutex, uiVars >>

\* Arrow up or k in the files view: the cursor moves up unless it is on the
\* first line; the files view and the content view are refreshed.
CursorUp ==
    /\ currentView = FilesViewName
    /\ mutex = "none"
    /\ IF Len(fileList) = 0
       THEN UNCHANGED currentLine /\ opened' = {}
       ELSE /\ currentLine' = IF currentLine > 0
                              THEN currentLine - 1
                              ELSE currentLine
            /\ opened' = refreshFilesView(selectedFiles)
                            \cup refreshContentView(fileList, currentLine')
    /\ UNCHANGED << allFiles, fileList, selectedFiles, filterMode, includes,
                    excludes, cacheVars, envVars, cacheViewVars, saveVars, reader, sniffed, viewVars,
                    loadVars, walkVars, mutex, uiVars >>

\* Arrow down or j in the files view: the cursor moves down unless it is on
\* the last line; the files view and the content view are refreshed.
CursorDown ==
    /\ currentView = FilesViewName
    /\ mutex = "none"
    /\ IF Len(fileList) = 0
       THEN UNCHANGED currentLine /\ opened' = {}
       ELSE /\ currentLine' = IF currentLine < Len(fileList) - 1
                              THEN currentLine + 1
                              ELSE currentLine
            /\ opened' = refreshFilesView(selectedFiles)
                            \cup refreshContentView(fileList, currentLine')
    /\ UNCHANGED << allFiles, fileList, selectedFiles, filterMode, includes,
                    excludes, cacheVars, envVars, cacheViewVars, saveVars, reader, sniffed, viewVars,
                    loadVars, walkVars, mutex, uiVars >>

\* A variant of toggled that never deselects.
toggledOn(selected, selectedFile) == selected \cup {selectedFile}

\* ToggleSelect's update of the selection map for the file under the cursor.
toggled(selected, selectedFile) ==
    IF selectedFile \in selected
    THEN selected \ {selectedFile}
    ELSE selected \cup {selectedFile}

\* Space in the files view: the file under the cursor is selected when it
\* was not and deselected when it was; the files view is refreshed.
ToggleSelect ==
    /\ currentView = FilesViewName
    /\ mutex = "none"
    /\ IF Len(fileList) = 0 \/ currentLine >= Len(fileList)
       THEN UNCHANGED selectedFiles /\ opened' = {}
       ELSE \E selectedFile \in {fileList[currentLine + 1]} :
               /\ selectedFiles' = toggled(selectedFiles, selectedFile)
               /\ opened' = refreshFilesView(selectedFiles')
    /\ UNCHANGED << allFiles, fileList, currentLine, filterMode, includes,
                    excludes, cacheVars, envVars, cacheViewVars, saveVars, reader, sniffed, viewVars,
                    loadVars, walkVars, mutex, uiVars >>

\* A variant of SelectAllFiles that selects whatever is selected already.
SelectAllFilesOnly ==
    /\ currentView = FilesViewName
    /\ mutex = "none"
    /\ IF Len(fileList) = 0
       THEN UNCHANGED << selectedFiles, statusMsg >> /\ opened' = {}
       ELSE /\ selectedFiles' = selectedFiles \cup Range(fileList)
            /\ statusMsg' = Status("Selected all visible files.", 0)
            /\ opened' = refreshFilesView(selectedFiles')
    /\ UNCHANGED << allFiles, fileList, currentLine, filterMode, includes,
                    excludes, cacheVars, envVars, cacheViewVars, saveVars, reader, sniffed, filterBuffer,
                    clipboard, loadVars, walkVars, mutex, uiVars >>

\* a in the files view: when every visible file is selected the visible
\* files are deselected, otherwise they are all selected; the status bar
\* says which, and the files view is refreshed.
SelectAllFiles ==
    /\ currentView = FilesViewName
    /\ mutex = "none"
    /\ IF Len(fileList) = 0
       THEN UNCHANGED << selectedFiles, statusMsg >> /\ opened' = {}
       ELSE \E allVisibleSelected \in
                  {IF Cardinality(selectedFiles) < Len(fileList)
                   THEN FALSE
                   ELSE \A file \in Range(fileList) : file \in selectedFiles} :
               /\ selectedFiles' = IF allVisibleSelected
                                   THEN selectedFiles \ Range(fileList)
                                   ELSE selectedFiles \cup Range(fileList)
               /\ statusMsg' = IF allVisibleSelected
                               THEN Status("Deselected all visible files.", 0)
                               ELSE Status("Selected all visible files.", 0)
               /\ opened' = refreshFilesView(selectedFiles')
    /\ UNCHANGED << allFiles, fileList, currentLine, filterMode, includes,
                    excludes, cacheVars, envVars, cacheViewVars, saveVars, reader, sniffed, filterBuffer,
                    clipboard, loadVars, walkVars, mutex, uiVars >>

\* The block CopyAllSelected writes for a file: the separator naming the
\* file, then its content or the text of the read error.
Block(t, relPath) ==
    [file     |-> relPath,
     readable |-> \E e \in t.entries :
                     e.path = relPath /\ ~e.isDir /\ e.st \in {"text", "binary"}]

\* A variant of CopyAllSelected that copies every listed file.
CopyAllListed ==
    /\ currentView = FilesViewName
    /\ mutex = "none"
    /\ IF Cardinality(selectedFiles) = 0
       THEN /\ statusMsg' = Status("No files selected to copy.", 0)
            /\ opened' = {}
            /\ UNCHANGED clipboard
       ELSE \E copied \in {fileList}, written \in BOOLEAN :
               /\ clipboard' = IF written
                               THEN [i \in 1..Len(copied) |-> Block(tree, copied[i])]
                               ELSE clipboard
               /\ statusMsg' = IF written
                               THEN Status("Copied content of %d file(s) to clipboard.",
                                           Len(copied))
                               ELSE Status("Error copying to clipboard!", 0)
               /\ opened' = Range(copied)
                               \cup IF written /\ Len(copied) > 0
                                    THEN refreshFilesView(selectedFiles)
                                    ELSE {}
    /\ UNCHANGED << filterVars, cacheVars, envVars, cacheViewVars, saveVars, reader, sniffed, filterBuffer,
                    loadVars, walkVars, mutex, uiVars >>

\* c or y in the files view: with no file selected the status bar says so;
\* otherwise the files of fileList that are selected are read in the order
\* of fileList, one block each goes to the clipboard, and the status bar
\* gives their number, or the failure of the clipboard.
CopyAllSelected ==
    /\ currentView = FilesViewName
    /\ mutex = "none"
    /\ IF Cardinality(selectedFiles) = 0
       THEN /\ statusMsg' = Status("No files selected to copy.", 0)
            /\ opened' = {}
            /\ UNCHANGED clipboard
       ELSE \E copied \in {SelectSeq(fileList, LAMBDA relPath : relPath \in selectedFiles)},
               written \in BOOLEAN :
               /\ clipboard' = IF written
                               THEN [i \in 1..Len(copied) |-> Block(tree, copied[i])]
                               ELSE clipboard
               /\ statusMsg' = IF written
                               THEN Status("Copied content of %d file(s) to clipboard.",
                                           Len(copied))
                               ELSE Status("Error copying to clipboard!", 0)
               /\ opened' = Range(copied)
                               \cup IF written /\ Len(copied) > 0
                                    THEN refreshFilesView(selectedFiles)
                                    ELSE {}
    /\ UNCHANGED << filterVars, cacheVars, envVars, cacheViewVars, saveVars, reader, sniffed, filterBuffer,
                    loadVars, walkVars, mutex, uiVars >>

(***************************************************************************)
(* The exported accessor FileList, which any goroutine may call: it reads  *)
(* app.fileList and returns it, and takes no lock.                         *)
(***************************************************************************)

\* A goroutine enters FileList and reads app.fileList.
FileListCall ==
    /\ reader = "idle"
    /\ reader' = "FileList"
    /\ UNCHANGED << filterVars, cacheVars, envVars, cacheViewVars, saveVars, loadVars, walkVars,
                    mutex, uiVars, viewVars, opened, sniffed >>

\* FileList returns the slice to its caller.
FileListReturn ==
    /\ reader = "FileList"
    /\ reader' = "idle"
    /\ UNCHANGED << filterVars, cacheVars, envVars, cacheViewVars, saveVars, loadVars, walkVars,
                    mutex, uiVars, viewVars, opened, sniffed >>

\* The steps of the background goroutine of main.
Worker ==
    \/ ListFilesBegin
    \/ WalkRoot
    \/ WalkDirectory
    \/ WalkFile
    \/ ListFilesEnd
    \/ SetLoadingComplete

Next ==
    \/ ListFilesBegin
    \/ WalkRoot
    \/ WalkDirectory
    \/ WalkFile
    \/ ListFilesEnd
    \/ SetLoadingComplete
    \/ Layout
    \/ SwitchFocus
    \/ \E buffer \in Buffers : ApplyFilter(buffer)
    \/ CancelFilter
    \/ ToggleFilterMode
    \/ FileListCall
    \/ FileListReturn

Spec == Init /\ [][Next]_vars

\* The Go scheduler runs the background goroutine whenever it can take a
\* step: it is never starved by the UI thread.
FairSpec == Spec /\ WF_vars(Worker)

(***************************************************************************)
(* The whole UI: selection, cursor and copy, and the edits of the filter   *)
(* view between two presses of Enter, on two trees.                        *)
(***************************************************************************)

UITrees == { TreeScenario, TreeClasses }

\* What a key typed in the filter view may leave in its buffer.
UIBuffers == { << >>, sGoGlob, sDirA }

\* NewApp found no cache path, or a writable cache file without an entry
\* for rootDir.
UIInit ==
    /\ Init
    /\ tree \in UITrees
    /\ cacheFilePath = "" \/ (cacheWritable /\ excludes = DefaultExcludes)

UINext ==
    \/ ListFilesBegin
    \/ WalkRoot
    \/ WalkDirectory
    \/ WalkFile
    \/ ListFilesEnd
    \/ SetLoadingComplete
    \/ Layout
    \/ SwitchFocus
    \/ \E buffer \in UIBuffers : EditFilterBuffer(buffer)
    \/ ApplyFilter(filterBuffer)
    \/ CancelFilter
    \/ ToggleFilterMode
    \/ CursorUp
    \/ CursorDown
    \/ ToggleSelect
    \/ SelectAllFiles
    \/ CopyAllSelected

UISpec == UIInit /\ [][UINext]_vars

(***************************************************************************)
(* The cache view (unnamed/part_005): showing the cache file, and clearing *)
(* it after a confirmation.                                                *)
(***************************************************************************)

\* What the cache view shows.
ContentNoPath       == "Error: Cache file path not determined."
ContentFile         == "the cache file"
ContentCleared      == "Cache cleared."
ContentRemoveFailed == "Error clearing cache file"

\* What ConfirmClearCache hands to updateStatus.
StatusNoPath       == "Error: Cache file path not determined. Cannot clear."
StatusCleared      == "Cache cleared successfully."
StatusRemoveFailed == "Error clearing cache file"

\* Ctrl+C in any view: the content of the cache file is read for display,
\* the cache view is to be shown and no confirmation is awaited; the Layout
\* the handler schedules renders the cache view once loading is over.
ShowCacheView ==
    /\ mutex = "none"
    /\ cacheViewContent' = IF cacheFilePath = "" THEN ContentNoPath
                           ELSE ContentFile
    /\ showCacheView' = TRUE
    /\ awaitingCacheClearConfirmation' = FALSE
    /\ screen' = layoutScreen(TRUE)
    /\ currentView' = layoutFocus(TRUE)
    /\ opened' = {}
    /\ statusMsg' = IF screen' = CacheViewName
                    THEN layoutCacheStatus(FALSE)
                    ELSE statusMsg
    /\ UNCHANGED << filterVars, cacheVars, envVars, saveVars, reader, sniffed,
                    filterBuffer, clipboard, loadVars, walkVars, mutex >>

\* The body of CloseCacheView: the cache view is no longer to be shown, its
\* content is dropped and no confirmation is awaited; the Layout the
\* handler schedules renders the main view, and the focus goes to the files
\* view (SetCurrentView fails when that view does not exist).
closeCacheView ==
    /\ showCacheView' = FALSE
    /\ cacheViewContent' = ""
    /\ awaitingCacheClearConfirmation' = FALSE
    /\ screen' = layoutScreen(FALSE)
    /\ currentView' = IF screen' = "main" THEN FilesViewName ELSE currentView
    /\ UNCHANGED filterVars
    /\ IF screen' = "main"
       THEN GrepApplicationView
       ELSE opened' = {} /\ UNCHANGED filterBuffer
    /\ UNCHANGED << cacheVars, envVars, saveVars, reader, sniffed, clipboard,
                    statusMsg, loadVars, walkVars, mutex >>

\* Esc or q in the cache view.
CloseCacheView ==
    /\ currentView = CacheViewName
    /\ mutex = "none"
    /\ closeCacheView

\* Ctrl+D in the cache view: a confirmation is awaited, when the cache view
\* is showing.
PromptClearCache ==
    /\ currentView = CacheViewName
    /\ mutex = "none"
    /\ IF ~showCacheView
       THEN UNCHANGED vars
       ELSE /\ awaitingCacheClearConfirmation' = TRUE
            /\ statusMsg' = Status(PromptText, 0)
            /\ UNCHANGED << filterVars, cacheVars, envVars, saveVars, reader,
                            opened, sniffed, filterBuffer, clipboard,
                            loadVars, walkVars, mutex, uiVars, showCacheView,
                            cacheViewContent >>

\* A variant of ConfirmClearCache that does not ask whether a confirmation
\* is awaited.
ConfirmClearCacheUnasked ==
    /\ currentView = CacheViewName
    /\ mutex = "none"
    /\ awaitingCacheClearConfirmation' = FALSE
    /\ IF cacheFilePath = ""
       THEN /\ statusMsg' = Status(StatusNoPath, 0)
            /\ cacheViewContent' = ContentNoPath
            /\ UNCHANGED << cache, cacheFile, otherCache, otherFile >>
       ELSE \E removed \in BOOLEAN :
               IF removed
               THEN /\ cacheFile' = NoEntry
                    /\ otherFile' = NoEntry
                    /\ cache' = CacheEntry(includes, excludes, filterMode)
                    /\ otherCache' = NoEntry
                    /\ statusMsg' = Status(StatusCleared, 0)
                    /\ cacheViewContent' = ContentCleared
               ELSE /\ statusMsg' = Status(StatusRemoveFailed, 0)
                    /\ cacheViewContent' = ContentRemoveFailed
                    /\ UNCHANGED << cache, cacheFile, otherCache,
                                    otherFile >>
    /\ UNCHANGED << filterVars, cacheFilePath, cacheWritable, envVars,
                    saveVars, reader, opened, sniffed, filterBuffer,
                    clipboard, loadVars, walkVars, mutex, uiVars,
                    showCacheView >>

\* y in the cache view: when a confirmation is awaited it is consumed and,
\* with a known cache path, os.Remove is called on the cache file; when the
\* file is gone (removed, or it did not exist) the in-memory cache is
\* replaced by a map that holds only rootDir's entry with the current
\* settings. The content of the cache view and the status bar report the
\* outcome.
ConfirmClearCache ==
    /\ currentView = CacheViewName
    /\ mutex = "none"
    /\ IF ~awaitingCacheClearConfirmation
       THEN UNCHANGED vars
       ELSE /\ awaitingCacheClearConfirmation' = FALSE
            /\ IF cacheFilePath = ""
               THEN /\ statusMsg' = Status(StatusNoPath, 0)
                    /\ cacheViewContent' = ContentNoPath
                    /\ UNCHANGED << cache, cacheFile, otherCache, otherFile >>
               ELSE \E removed \in BOOLEAN :
                       IF removed
                       THEN /\ cacheFile' = NoEntry
                            /\ otherFile' = NoEntry
                            /\ cache' = CacheEntry(includes, excludes,
                                                   filterMode)
                            /\ otherCache' = NoEntry
                            /\ statusMsg' = Status(StatusCleared, 0)
                            /\ cacheViewContent' = ContentCleared
                       ELSE /\ statusMsg' = Status(StatusRemoveFailed, 0)
                            /\ cacheViewContent' = ContentRemoveFailed
                            /\ UNCHANGED << cache, cacheFile, otherCache,
                                            otherFile >>
            /\ UNCHANGED << filterVars, cacheFilePath, cacheWritable, envVars,
                            saveVars, reader, opened, sniffed, filterBuffer,
                            clipboard, loadVars, walkVars, mutex, uiVars,
                            showCacheView >>

\* The goroutine ConfirmClearCache starts: after a delay the status bar
\* returns to the text of the cache view, when it still shows the outcome,
\* the cache view is showing and no confirmation is awaited.
ResetClearStatus ==
    /\ mutex = "none"
    /\ statusMsg.text \in {StatusNoPath, StatusCleared, StatusRemoveFailed}
    /\ showCacheView
    /\ ~awaitingCacheClearConfirmation
    /\ statusMsg' = Status(CacheStatusText, 0)
    /\ UNCHANGED << filterVars, cacheVars, envVars, cacheViewVars, saveVars,
                    reader, opened, sniffed, filterBuffer, clipboard,
                    loadVars, walkVars, mutex, uiVars >>

\* The body of CancelClearCache: an awaited confirmation is dropped and the
\* status bar returns to the text of the cache view.
cancelClearCache ==
    IF ~awaitingCacheClearConfirmation
    THEN UNCHANGED vars
    ELSE /\ awaitingCacheClearConfirmation' = FALSE
         /\ statusMsg' = Status(CacheStatusText, 0)
         /\ UNCHANGED << filterVars, cacheVars, envVars, saveVars, reader,
                         opened, sniffed, filterBuffer, clipboard, loadVars,
                         walkVars, mutex, uiVars, showCacheView,
                         cacheViewContent >>

\* n in the cache view.
CancelClearCache ==
    /\ currentView = CacheViewName
    /\ mutex = "none"
    /\ cancelClearCache

\* q in a view that does not bind it: an awaited confirmation is cancelled,
\* else an open cache view is closed, else the program quits.
QuitHandler ==
    /\ currentView # CacheViewName
    /\ mutex = "none"
    /\ IF awaitingCacheClearConfirmation THEN cancelClearCache
       ELSE IF showCacheView THEN closeCacheView
       ELSE UNCHANGED vars

(***************************************************************************)
(* The cache view together with the filter handlers, on the scenario tree, *)
(* with a cache file that may hold the entry of another directory and that *)
(* loadCache may fail to read.                                             *)
(***************************************************************************)

CacheInit ==
    /\ \E other \in OtherEntries, readable \in BOOLEAN :
          AppInit(other, readable)
    /\ tree = TreeScenario

CacheNext ==
    \/ ListFilesBegin
    \/ WalkRoot
    \/ WalkDirectory
    \/ WalkFile
    \/ ListFilesEnd
    \/ SetLoadingComplete
    \/ Layout
    \/ SwitchFocus
    \/ \E buffer \in UIBuffers : ApplyFilter(buffer)
    \/ ToggleFilterMode
    \/ ShowCacheView
    \/ CloseCacheView
    \/ PromptClearCache
    \/ ConfirmClearCache
    \/ CancelClearCache
    \/ QuitHandler
    \/ ResetClearStatus

CacheSpec == CacheInit /\ [][CacheNext]_vars

(***************************************************************************)
(* saveCache (internal/utils.go), step by step: the file at filePath is    *)
(* the pair << cacheFile, otherFile >>, the file at filePath + ".tmp" is   *)
(* tempFile.                                                               *)
(***************************************************************************)

\* The maps saveCache may be called with.
CacheContents ==
    { << root, other >> : root \in SavedEntries \ {NoEntry},
                          other \in OtherEntries }

\* The paths saveCache may be called with.
FilePaths == { "", "known" }

\* The call: with an empty path saveCache returns an error at once;
\* otherwise the map is marshalled.
SaveCacheCall ==
    /\ savePc = "idle"
    /\ \E path \in FilePaths, c \in CacheContents :
          /\ filePath' = path
          /\ IF path = ""
             THEN /\ saveErr' = "empty path"
                  /\ UNCHANGED << data, savePc >>
             ELSE /\ data' = c
                  /\ saveErr' = Nil
                  /\ savePc' = "WriteFile"
    /\ UNCHANGED << filterVars, cacheVars, envVars, cacheViewVars, reader,
                    opened, sniffed, viewVars, loadVars, walkVars, mutex,
                    uiVars, tempFile >>

\* A variant of WriteTempFile that writes the cache file itself: a failed
\* write leaves the first entry written and the rest as it was.
WriteCacheFileInPlace ==
    /\ savePc = "WriteFile"
    /\ \E written \in BOOLEAN :
          IF written
          THEN /\ cacheFile' = data[1]
               /\ otherFile' = data[2]
               /\ saveErr' = Nil
          ELSE /\ cacheFile' = data[1]
               /\ UNCHANGED otherFile
               /\ saveErr' = "write"
    /\ savePc' = "idle"
    /\ UNCHANGED << filterVars, cacheFilePath, cache, cacheWritable,
                    otherCache, envVars, cacheViewVars, reader, opened,
                    sniffed, viewVars, loadVars, walkVars, mutex, uiVars,
                    filePath, data, tempFile >>

\* os.WriteFile(tempFile, data, 0o640): the temporary file holds the whole
\* of data, or the write fails and saveCache returns; a failed write leaves
\* the temporary file as it was (it could not be opened) or partly written.
WriteTempFile ==
    /\ savePc = "WriteFile"
    /\ \E written \in BOOLEAN :
          IF written
          THEN /\ tempFile' = Complete(data)
               /\ savePc' = "Rename"
               /\ UNCHANGED saveErr
          ELSE /\ tempFile' \in {tempFile, Partial}
               /\ saveErr' = "write"
               /\ savePc' = "idle"
    /\ UNCHANGED << filterVars, cacheVars, envVars, cacheViewVars, reader,
                    opened, sniffed, viewVars, loadVars, walkVars, mutex,
                    uiVars, filePath, data >>

\* os.Rename(tempFile, filePath): the cache file becomes what the temporary
\* file holds and saveCache returns nil, or the rename fails.
RenameTempFile ==
    /\ savePc = "Rename"
    /\ \E renamed \in BOOLEAN :
          IF renamed
          THEN /\ cacheFile' = tempFile.content[1]
               /\ otherFile' = tempFile.content[2]
               /\ tempFile' = Absent
               /\ savePc' = "idle"
          ELSE /\ savePc' = "Remove"
               /\ UNCHANGED << cacheFile, otherFile, tempFile >>
    /\ UNCHANGED << filterVars, cacheFilePath, cache, cacheWritable,
                    otherCache, envVars, cacheViewVars, reader, opened,
                    sniffed, viewVars, loadVars, walkVars, mutex, uiVars,
                    filePath, data, saveErr >>

\* _ = os.Remove(tempFile) after a failed rename: the temporary file is
\* removed, or the removal fails and its error is discarded; saveCache
\* returns the error of the rename.
RemoveTempFile ==
    /\ savePc = "Remove"
    /\ \E removed \in BOOLEAN :
          tempFile' = IF removed THEN Absent ELSE tempFile
    /\ saveErr' = "rename"
    /\ savePc' = "idle"
    /\ UNCHANGED << filterVars, cacheVars, envVars, cacheViewVars, reader,
                    opened, sniffed, viewVars, loadVars, walkVars, mutex,
                    uiVars, filePath, data >>

\* Calls of saveCache, one after the other, from the state NewApp leaves
\* on the scenario tree.
SaveInit == Init /\ tree = TreeScenario

SaveNext ==
    \/ SaveCacheCall
    \/ WriteTempFile
    \/ RenameTempFile
    \/ RemoveTempFile

SaveSpec == SaveInit /\ [][SaveNext]_vars
(***************************************************************************)
(* The statements of the specification, in its own terms.                  *)
(***************************************************************************)

\* ListFiles has returned.
Loaded == pc \in {"SetLoadingComplete", "done"}

\* A recomputation of the filtered list: the end of the walk or ApplyFilter.
ApplyFilterStep == \E buffer \in Buffers : ApplyFilter(buffer)
RecomputeStep == ListFilesEnd \/ ApplyFilterStep

\* dirOf(path): the path before its last "/", "" for a file at the root.
DirOf(path) ==
    The({ IF i = 0 THEN << >> ELSE Take[path, i - 1] :
          i \in {LastIndexFrom[path, "/", Len(path)]} })

\* The directories above path, as relative paths.
Ancestors(path) ==
    {Take[path, i - 1] : i \in {j \in 1..Len(path) : path[j] = "/"}}

\* PatternSet: the comma-split string, entries trimmed, empty ones discarded.
PatternSet(str) ==
    {TrimSpace[raw] : raw \in Range(Split[str, ","])} \ {<< >>}

\* DirectoryPattern "foo/": dirOf(path) + "/" starts with the pattern.
DirectoryPatternMatches(pattern, path) ==
    HasPrefix[DirOf(path) \o << "/" >>, pattern]

\* GlobPattern: the glob matches the base name or the full relative path.
GlobPatternMatches(pattern, path) ==
    Match[pattern, Base[path]] \/ Match[pattern, path]

PatternMatches(pattern, path) ==
    IF HasSuffix[pattern, << "/" >>]
    THEN DirectoryPatternMatches(pattern, path)
    ELSE GlobPatternMatches(pattern, path)

\* A PatternSet hits a path when one of its patterns matches.
PatternSetHits(str, path) ==
    \E pattern \in PatternSet(str) : PatternMatches(pattern, path)

\* BuiltinExcludeSet: .git/ and node_modules/.
BuiltinExcludeSet ==
    { << ".", "g", "i", "t", "/" >>,
      << "n", "o", "d", "e", "_", "m", "o", "d", "u", "l", "e", "s", "/" >> }

MatchesBuiltinExclude(path) ==
    \E pattern \in BuiltinExcludeSet : DirectoryPatternMatches(pattern, path)

\* The ignore matcher answers true for the path, or for D + "/" for a
\* directory D above it.
IsIgnored(path) ==
    /\ ~gitignoreMatcher.isNil
    /\ \/ Ignore(gitignoreMatcher, path)
       \/ \E dir \in Ancestors(path) :
              Ignore(gitignoreMatcher, dir \o << "/" >>)

NonVetoed(path) == ~IsIgnored(path) /\ ~MatchesBuiltinExclude(path)

\* The files a walk that asks no ignore matcher finds: the text files other
\* than the root's .gitignore, below a readable root, with every directory
\* above them readable, not named .git and not below node_modules/.
WalkedWithoutIgnore(t) ==
    {e.path : e \in
        {x \in t.entries :
            /\ ~x.isDir
            /\ x.st = "text"
            /\ x.path # pGitignore
            /\ t.rootSt = "ok"
            /\ \A dir \in Ancestors(x.path) :
                  /\ Entry(t, dir).st = "ok"
                  /\ Base[dir] # pGit
                  /\ ~HasPrefix[dir \o << "/" >>, pNodeModules \o << "/" >>]}}

C2_NoIgnoredVisible ==
    /\ \A i \in 1..Len(fileList) : ~IsIgnored(fileList[i])
    /\ (Loaded /\ gitignoreMatcher.isNil)
           => Range(allFiles) = WalkedWithoutIgnore(tree)

\* C2 witness: the tree whose matcher answers true on "ig/", loaded, with an
\* include pattern that ig/z.go would match: r.go is visible, ig/z.go is not.
C2_Witness ==
    /\ tree = TreeDirs
    /\ pc = "done"
    /\ filterMode = IncludeMode
    /\ includes = sGoGlob
    /\ pRgo \in Range(fileList)
    /\ pIgZgo \notin Range(fileList)

\* C10: every path of allFiles, and so of fileList, is a file the walk
\* classified as text: never a binary one, never one it could not open or read.
C10_OnlyTextCandidates ==
    \A path \in Range(allFiles) \cup Range(fileList) :
        /\ ~Entry(tree, path).isDir
        /\ Entry(tree, path).st = "text"

\* C10 witness: the tree with a binary file, a file that cannot be opened
\* and one that cannot be read, loaded: only the text files are candidates.
C10_Witness ==
    /\ tree = TreeClasses
    /\ Loaded
    /\ allFiles = << pSCgo, pTgo >>
    /\ { F(pBingo, "binary"), F(pUngo, "openerr"), F(pRdtxt, "readerr") }
           \subseteq tree.entries

\* C3 (refuted by the code): when a recomputation ends in IncludeMode, a
\* candidate is visible exactly when it is not vetoed and the includes
\* PatternSet is empty or hits it.
C3_IncludeModeVisible ==
    [][ (RecomputeStep /\ filterMode' = IncludeMode)
        => \A path \in Range(allFiles') :
               path \in Range(fileList')
                   <=> /\ NonVetoed(path)
                       /\ \/ PatternSet(includes') = {}
                          \/ PatternSetHits(includes', path) ]_vars

\* C4: when a recomputation ends in ExcludeMode, a candidate is visible
\* exactly when it is not vetoed and the excludes PatternSet does not hit it;
\* with includes = "" and excludes = "" the list is the candidates that are
\* not vetoed, in the candidates' order.
C4_ExcludeModeVisible ==
    [][ (RecomputeStep /\ filterMode' = ExcludeMode)
        => /\ \A path \in Range(allFiles') :
                  path \in Range(fileList')
                      <=> NonVetoed(path) /\ ~PatternSetHits(excludes', path)
           /\ (includes' = << >> /\ excludes' = << >>)
                  => fileList' = SelectSeq(allFiles', NonVetoed) ]_vars

\* C4 witness: the scenario tree in ExcludeMode after ApplyFilter of
\* " x, *.txt \n": the second pattern hides a/c.txt, a/b.go stays.
C4_Witness ==
    /\ tree = TreeScenario
    /\ pc = "done"
    /\ filterMode = ExcludeMode
    /\ excludes = << "x", ",", " ", "*", ".", "t", "x", "t" >>
    /\ allFiles = << pABgo, pACtxt >>
    /\ fileList = << pABgo >>

\* C5 (refuted by the code): once the walk is over, fileList is the filter's
\* result over allFiles for the current filterMode, includes and excludes.
C5_ListIsCurrent ==
    Loaded => fileList = filteredList(allFiles, filterMode, includes, excludes)

\* The position of a candidate in allFiles.
IndexIn(seq, x) == CHOOSE i \in 1..Len(seq) : seq[i] = x

\* C6: at the end of the walk and after every ApplyFilter, fileList is the
\* subsequence of allFiles, in allFiles' order, of the files the filter
\* accepts for the current mode, includes and excludes; ApplyFilter leaves
\* allFiles as it is.
C6_FilteredSubsequence ==
    [][ /\ RecomputeStep
            => /\ Range(fileList') =
                      {file \in Range(allFiles') :
                          shouldIncludeFileByFilters(file, filterMode',
                                                     includes', excludes')}
               /\ \A i, j \in 1..Len(fileList') :
                      i < j => IndexIn(allFiles', fileList'[i])
                                   < IndexIn(allFiles', fileList'[j])
        /\ ApplyFilterStep => allFiles' = allFiles ]_vars

\* C6 witness: TreeDirs after ApplyFilter of "a/" in IncludeMode: of the
\* five candidates the two below a/ are listed, in the candidates' order.
C6_Witness ==
    /\ tree = TreeDirs
    /\ pc = "done"
    /\ filterMode = IncludeMode
    /\ includes = sDirA
    /\ allFiles = << pAdYgo, pASubEgo, pAYgo, pRgo, pXAYgo >>
    /\ fileList = << pASubEgo, pAYgo >>

\* The pattern string in force after a recomputation.
ActivePattern(mode, inc, exc) == IF mode = IncludeMode THEN inc ELSE exc

\* C7: when the pattern string in force is one directory pattern, it decides
\* by "dirOf(path) + "/" starts with the pattern"; the pattern "/" decides
\* by "the path has no directory part".
C7_DirectoryPattern ==
    [][ (/\ RecomputeStep
         /\ PatternSet(ActivePattern(filterMode', includes', excludes'))
                = {ActivePattern(filterMode', includes', excludes')}
         /\ HasSuffix[ActivePattern(filterMode', includes', excludes'), << "/" >>])
        => \A path \in Range(allFiles') :
               /\ path \in Range(fileList')
                      <=> /\ NonVetoed(path)
                          /\ (filterMode' = IncludeMode)
                                 <=> HasPrefix[DirOf(path) \o << "/" >>,
                                         ActivePattern(filterMode', includes', excludes')]
               /\ ActivePattern(filterMode', includes', excludes') = << "/" >>
                      => (path \in Range(fileList')
                              <=> ((filterMode' = IncludeMode)
                                       <=> ~ContainsChar[path, "/"])) ]_vars

\* C7 witness: TreeDirs in ExcludeMode after ApplyFilter of "a/": a/y.go and
\* the nested a/sub/e.go are hidden, x/a/y.go and a.d/y.go are not.
C7_Witness ==
    /\ tree = TreeDirs
    /\ pc = "done"
    /\ filterMode = ExcludeMode
    /\ excludes = sDirA
    /\ allFiles = << pAdYgo, pASubEgo, pAYgo, pRgo, pXAYgo >>
    /\ fileList = << pAdYgo, pRgo, pXAYgo >>

\* A pattern that is no valid glob.
sBadGlob == << "[" >>

\* C8: when the PatternSet in force is not empty and holds only glob
\* patterns, it hits a path exactly when one of the globs matches the base
\* name or the full relative path; the invalid glob "[" hits no path, and the
\* recomputation goes through.
C8_GlobPattern ==
    [][ (/\ RecomputeStep
         /\ PatternSet(ActivePattern(filterMode', includes', excludes')) # {}
         /\ \A pattern \in PatternSet(ActivePattern(filterMode', includes', excludes')) :
                ~HasSuffix[pattern, << "/" >>])
        => /\ \A path \in Range(allFiles') :
                  path \in Range(fileList')
                      <=> /\ NonVetoed(path)
                          /\ (filterMode' = IncludeMode)
                                 <=> \E pattern \in PatternSet(
                                         ActivePattern(filterMode', includes', excludes')) :
                                         \/ Match[pattern, Base[path]]
                                         \/ Match[pattern, path]
           /\ ActivePattern(filterMode', includes', excludes') = sBadGlob
                  => fileList' = IF filterMode' = IncludeMode
                                 THEN << >>
                                 ELSE SelectSeq(allFiles', NonVetoed) ]_vars

\* C8 witness: the scenario tree in ExcludeMode after ApplyFilter of
\* "a/b.go", a glob that matches the full relative path only.
C8_Witness ==
    /\ tree = TreeScenario
    /\ pc = "done"
    /\ filterMode = ExcludeMode
    /\ excludes = pABgo
    /\ allFiles = << pABgo, pACtxt >>
    /\ fileList = << pACtxt >>

\* C9: on the tree a/b.go, a/c.txt, node_modules/d.go, .git/HEAD a
\* recomputation in ExcludeMode with the defaults gives [a/b.go, a/c.txt], in
\* IncludeMode with includes "*.go" gives [a/b.go]; with an ignore rule for
\* a/c.txt, ExcludeMode with the defaults gives [a/b.go].
C9_Scenario ==
    [][ RecomputeStep
        => /\ (/\ tree = TreeScenario
               /\ filterMode' = ExcludeMode
               /\ includes' = << >>
               /\ excludes' \in {<< >>, DefaultExcludes})
                  => fileList' = << pABgo, pACtxt >>
           /\ (/\ tree = TreeScenario
               /\ filterMode' = IncludeMode
               /\ includes' = sGoGlob)
                  => fileList' = << pABgo >>
           /\ (/\ tree = TreeIgnoreFile
               /\ filterMode' = ExcludeMode
               /\ includes' = << >>
               /\ excludes' \in {<< >>, DefaultExcludes})
                  => fileList' = << pABgo >> ]_vars

\* C9 witness: the tree with the ignore rule for a/c.txt, walked and
\* filtered in ExcludeMode with the defaults.
C9_Witness ==
    /\ tree = TreeIgnoreFile
    /\ pc = "SetLoadingComplete"
    /\ filterMode = ExcludeMode
    /\ includes = << >>
    /\ excludes = DefaultExcludes
    /\ fileList = << pABgo >>


(***************************************************************************)
(* The walk: pruning, errors, order.                                       *)
(***************************************************************************)

\* The walk prunes at directory dir: dir + "/" matches a built-in exclude
\* directory pattern, or the ignore matcher answers true for dir + "/".
PruneHit(dir) ==
    \/ \E pattern \in BuiltinExcludeSet : HasPrefix[dir \o << "/" >>, pattern]
    \/ ~gitignoreMatcher.isNil /\ Ignore(gitignoreMatcher, dir \o << "/" >>)

\* C11: nothing below a directory that matches a built-in exclude directory
\* pattern, or that the ignore matcher answers true for, is ever handed to
\* the walk: no such path is waiting to be visited and none was appended
\* after being opened and classified.
C11_PrunedSubtreeNeverVisited ==
    \A path \in Range(pending) \cup Range(files) :
        \A dir \in Ancestors(path) : ~PruneHit(dir)

\* C11 witness: TreeDirs right after the walk met the ignored directory ig,
\* which holds ig/z.go: the walk goes on with r.go and x, ig/z.go is not
\* waiting.
C11_Witness ==
    /\ tree = TreeDirs
    /\ pc = "WalkDir"
    /\ F(pIgZgo, "text") \in tree.entries
    /\ PruneHit(pIg)
    /\ files = << pASubEgo, pAYgo, pAdYgo >>
    /\ pending = << pRgo, pX >>

\* C12 (refuted by the code): when the root cannot be stat'ed or read,
\* ListFiles returns an error, and SetLoadingComplete records it as
\* loadingError.
C12_RootFailureIsFatal ==
    tree.rootSt # "ok"
        => /\ Loaded => listErr # Nil
           /\ pc = "done" => loadingError # Nil

\* The walk does not descend into dir: a prune hit, or a directory named
\* .git.
WalkPrunes(dir) == PruneHit(dir) \/ Base[dir] = pGit

\* The files the walk has to find: the text files, other than the root's
\* ignore-file, that the matcher does not answer true for, below a readable
\* root, with every directory above them readable and not pruned.
ExpectedCandidates ==
    {e.path : e \in
        {x \in tree.entries :
            /\ ~x.isDir
            /\ x.st = "text"
            /\ x.path # pGitignore
            /\ ~(~gitignoreMatcher.isNil /\ Ignore(gitignoreMatcher, x.path))
            /\ tree.rootSt = "ok"
            /\ \A dir \in Ancestors(x.path) :
                  Entry(tree, dir).st = "ok" /\ ~WalkPrunes(dir)}}

\* The entry fails: a directory below the root that cannot be read for lack
\* of permission, or a file that cannot be opened or read.
EntryFails(e) ==
    IF e.isDir THEN e.st = "perm" ELSE e.st \in {"openerr", "readerr"}

\* C13: a visit of a failing entry below the root only drops that entry (and
\* with it what lies below): the entries waiting after it keep waiting and
\* files is not touched; a visited entry never waits again, and what enters
\* the waiting list lies directly inside the visited directory; ListFiles
\* ends with a nil error and allFiles holds every expected candidate.
C13_EntryErrorsAreLocal ==
    [][ /\ (pc = "WalkDir" /\ pending # << >> /\ pending' # pending)
            => /\ Head(pending) \notin Range(pending')
               /\ \A path \in Range(pending') :
                      path \in Range(Tail(pending)) \/ DirOf(path) = Head(pending)
               /\ (Head(pending) # << >> /\ EntryFails(Entry(tree, Head(pending))))
                      => pending' = Tail(pending) /\ files' = files /\ pc' = "WalkDir"
        /\ ListFilesEnd
            => listErr' = Nil /\ Range(allFiles') = ExpectedCandidates ]_vars

\* C13 witness: TreeClasses, with the unreadable directory b (holding
\* b/e.go), un.go that cannot be opened and rd.txt that cannot be read, after
\* the walk: the error is nil and the files the walk met after the failing
\* entries are candidates.
C13_Witness ==
    /\ tree = TreeClasses
    /\ { D(pB, "perm"), F(pBEgo, "text"), F(pUngo, "openerr"),
         F(pRdtxt, "readerr") } \subseteq tree.entries
    /\ pc = "done"
    /\ isLoading = FALSE
    /\ loadingError = Nil
    /\ allFiles = << pSCgo, pTgo >>

\* C14: when <root>/.gitignore is absent, is a directory, cannot be stat'ed
\* or cannot be loaded, the application runs with the nil matcher: ListFiles
\* can start, it ends with a nil error, and allFiles is what a walk with no
\* ignore step finds, the files named by the ignore-file's rules included.
C14_IgnoreFileFailureIsNotFatal ==
    tree.gitignore.state # "ok"
        => /\ gitignoreMatcher = NilMatcher
           /\ (pc = "ListFiles" /\ mutex = "none") => ENABLED ListFilesBegin
           /\ Loaded => /\ listErr = Nil
                        /\ Range(allFiles) = WalkedWithoutIgnore(tree)
                        /\ \A path \in tree.gitignore.ignored :
                               F(path, "text") \in tree.entries
                                   => path \in Range(allFiles)

\* C14 witness: the tree whose ignore-file has a rule for t.go and cannot be
\* loaded, after the walk: no matcher, and t.go is a candidate and visible.
C14_Witness ==
    /\ tree = TreeBadIgnore
    /\ tree.gitignore = [state |-> "readerr", ignored |-> { pTgo }]
    /\ gitignoreMatcher.isNil
    /\ pc = "done"
    /\ loadingError = Nil
    /\ allFiles = << pTgo >>
    /\ pTgo \in Range(fileList)

\* a is before b in the lexicographic order of the bytes.
LexLess(a, b) ==
    \E k \in 0..Len(a) :
        /\ k <= Len(b)
        /\ \A i \in 1..k : a[i] = b[i]
        /\ IF k = Len(a)
           THEN Len(b) > k
           ELSE k < Len(b) /\ Ord[a[k + 1]] < Ord[b[k + 1]]

StrictlyAscending(seq) ==
    \A i \in 1..(Len(seq) - 1) : LexLess(seq[i], seq[i + 1])

\* C15: allFiles and fileList are strictly ascending in the lexicographic
\* order, so without duplicates; once the walk is over allFiles holds every
\* expected candidate, each once.
C15_SortedNoDuplicates ==
    /\ StrictlyAscending(allFiles)
    /\ StrictlyAscending(fileList)
    /\ Loaded => /\ Range(allFiles) = ExpectedCandidates
                 /\ Len(allFiles) = Cardinality(ExpectedCandidates)

\* C15 witness: TreeDirs after the walk, which met a/sub/e.go and a/y.go
\* before a.d/y.go: in allFiles a.d/y.go comes first.
C15_Witness ==
    /\ tree = TreeDirs
    /\ Loaded
    /\ files = << pASubEgo, pAYgo, pAdYgo, pRgo, pXAYgo >>
    /\ allFiles = << pAdYgo, pASubEgo, pAYgo, pRgo, pXAYgo >>
    /\ fileList = allFiles

\* C16: the root (the empty relative path, or ".") and the root's
\* ignore-file ".gitignore" are never in files, allFiles or fileList.
C16_RootAndIgnoreFileExcluded ==
    \A path \in Range(files) \cup Range(allFiles) \cup Range(fileList) :
        path \notin { << >>, << "." >>, pGitignore }

\* C16 witness: a tree whose .gitignore is a text file but gave no matcher,
\* after the walk and a toggle to IncludeMode: t.go is the only candidate.
C16_Witness ==
    /\ tree = TreeBadIgnore
    /\ F(pGitignore, "text") \in tree.entries
    /\ gitignoreMatcher.isNil
    /\ pc = "done"
    /\ filterMode = IncludeMode
    /\ includes = << >>
    /\ allFiles = << pTgo >>

(***************************************************************************)
(* Determinism, concurrency, termination of the load.                      *)
(***************************************************************************)

C18_LayoutNeverBlocked ==
    pc = "WalkDir" => ENABLED Layout

\* C19 (refuted by the code): a thread that is reading or writing the
\* candidate list, the filtered list, the mode or the pattern strings holds
\* app.mutex: the worker throughout the walk, and the caller of FileList
\* while it reads app.fileList.
C19_SharedStateUnderMutex ==
    /\ pc = "WalkDir" => mutex = "worker"
    /\ reader = "FileList" => mutex = "reader"

\* C20: under fair scheduling of the worker, a walk that has started leads
\* to SetLoadingComplete; SetLoadingComplete takes isLoading from true to
\* false and ends the goroutine; isLoading never becomes true again; only
\* the worker moves its own position, which never goes back to a walk.
C20_LoadCompletesOnce ==
    /\ (pc = "WalkDir") ~> (pc = "done" /\ ~isLoading)
    /\ [][SetLoadingComplete => isLoading /\ ~isLoading' /\ pc' = "done"]_vars
    /\ [][~isLoading => ~isLoading']_vars
    /\ [][pc' # pc => Worker]_vars
    /\ [][Loaded => Loaded']_vars
    /\ [][pc = "done" => pc' = "done" /\ allFiles' = allFiles]_vars

\* C20 witness: the load is over, and handlers have run since: the filter
\* view has the focus, the mode was toggled and a filter applied.
C20_Witness ==
    /\ tree = TreeScenario
    /\ pc = "done"
    /\ isLoading = FALSE
    /\ loadingError = Nil
    /\ screen = "main"
    /\ currentView = FilterViewName
    /\ cacheFilePath = "known"
    /\ cache = CacheEntry(sDirA, DefaultExcludes, IncludeMode)
    /\ fileList = << pABgo, pACtxt >>

(***************************************************************************)
(* Claims C21 to C30.                                                      *)
(***************************************************************************)

\* The files a refresh of the main view reads for display: the selected
\* ones and the one under the cursor.
DisplayedFiles(list, line, selected) ==
    selected \cup {list[i] : i \in {j \in 1..Len(list) : j = line + 1}}

\* C21 (as stated): the operations that recompute the filtered list, and
\* ToggleFilterMode, open or read no file.
C21_RecomputeOpensNoFile ==
    [][(RecomputeStep \/ ToggleFilterMode) => opened' = {}]_vars

\* C21 (amended): a file is classified by its content type only by the walk,
\* and at most once; every candidate has been classified; a recomputation
\* of the filtered list and ToggleFilterMode classify nothing, and the only
\* files they read are the ones the refresh displays: the selected files
\* and the file under the cursor.
C21_ClassifiedOnceDuringWalk ==
    [][ /\ sniffed' # sniffed
            => /\ WalkFile
               /\ \E path \in {Head(pending)} :
                     /\ sniffed' = Append(sniffed, path)
                     /\ path \notin Range(sniffed)
        /\ Cardinality(Range(sniffed')) = Len(sniffed')
        /\ Loaded' => Range(allFiles') \subseteq Range(sniffed')
        /\ (RecomputeStep \/ ToggleFilterMode)
            => /\ sniffed' = sniffed
               /\ opened' \subseteq
                     DisplayedFiles(fileList', currentLine', selectedFiles')
               /\ opened' \subseteq Range(allFiles')
      ]_vars

\* C21 witness: the walk has classified several files and an ApplyFilter has
\* since recomputed the list, whose refresh read the file under the cursor.
C21_Witness ==
    /\ pc = "done"
    /\ Len(sniffed) >= 2
    /\ excludes = sDirA
    /\ opened # {}
    /\ opened \subseteq Range(fileList)

\* The filter state: the candidate list, the mode and the pattern strings.
filterState == << allFiles, filterMode, includes, excludes >>

\* C24: ToggleSelect flips the selected state of the file under the cursor,
\* and of that file only; fileList, the cursor and the filter state stay as
\* they are; on an empty fileList the selection stays as it is; toggling the
\* file under the cursor twice gives the selection back.
C24_ToggleSelectFlipsOne ==
    [][ToggleSelect
          => /\ UNCHANGED << fileList, currentLine, filterState >>
             /\ IF Len(fileList) = 0
                THEN selectedFiles' = selectedFiles
                ELSE \E file \in {fileList[currentLine + 1]} :
                        /\ file \in selectedFiles' <=> file \notin selectedFiles
                        /\ selectedFiles' \ {file} = selectedFiles \ {file}
                        /\ toggled(selectedFiles', file) = selectedFiles
       ]_vars

\* C24 witness: two files are listed, the cursor is on the second one, which
\* has been selected and deselected again, and the first one is still
\* selected.
C24_Witness ==
    /\ currentView = FilesViewName
    /\ Len(fileList) = 2
    /\ currentLine = 1
    /\ selectedFiles = {fileList[1]}
    /\ opened = selectedFiles
    /\ statusMsg = Status("", 0)

\* C25: with a non-empty fileList, SelectAllFiles deselects the files of
\* fileList when all of them are selected and selects them all otherwise;
\* afterwards the selection is empty or exactly the set of files in
\* fileList; on an empty fileList it changes nothing; fileList, the cursor
\* and the filter state stay as they are.
C25_SelectAllOrNone ==
    [][SelectAllFiles
          => /\ UNCHANGED << fileList, currentLine, filterState >>
             /\ IF Len(fileList) = 0
                THEN UNCHANGED << selectedFiles, statusMsg >>
                ELSE /\ IF Range(fileList) \subseteq selectedFiles
                        THEN selectedFiles' \cap Range(fileList) = {}
                        ELSE Range(fileList) \subseteq selectedFiles'
                     /\ selectedFiles' \in {{}, Range(fileList)}
       ]_vars

\* C25 witness: SelectAllFiles has deselected the two files on display.
C25_Witness ==
    /\ Len(fileList) = 2
    /\ selectedFiles = {}
    /\ statusMsg = Status("Deselected all visible files.", 0)
    /\ opened = {}

\* C26: in every reachable state every selected file is a member of
\* fileList, and so of allFiles; a recomputation of the filtered list keeps
\* of the selection exactly the files that stay listed; a copy holds blocks
\* of listed, selected files only.
C26_SelectionWithinFileList ==
    [][ /\ selectedFiles' \subseteq Range(fileList')
        /\ Range(fileList') \subseteq Range(allFiles')
        /\ (ListFilesEnd \/ ApplyFilter(filterBuffer))
            => selectedFiles' = selectedFiles \cap Range(fileList')
        /\ (CopyAllSelected /\ clipboard' # clipboard)
            => \A i \in 1..Len(clipboard') :
                   clipboard'[i].file \in Range(fileList) \cap selectedFiles
      ]_vars

\* C26 witness: two files were selected and an ApplyFilter has removed one
\* of them from the list and from the selection.
C26_Witness ==
    /\ Len(allFiles) = 2
    /\ Len(fileList) = 1
    /\ selectedFiles = Range(fileList)
    /\ statusMsg = Status("Selected all visible files.", 0)
    /\ filterBuffer = sGoGlob
    /\ currentView = FilesViewName

\* The cursor is inside the list, or on line 0 of an empty list.
CursorInBounds(list, line) ==
    /\ line >= 0
    /\ Len(list) > 0 => line < Len(list)
    /\ Len(list) = 0 => line = 0

\* C27: in every reachable state the cursor is in bounds; CursorUp and
\* CursorDown move it by at most one line and keep it there; applyFilters
\* keeps it where it is when it still is inside the list and puts it on the
\* last line (line 0 of an empty list) when the list has shrunk below it.
C27_CursorInBounds ==
    [][ /\ CursorInBounds(fileList', currentLine')
        /\ CursorUp
            => currentLine' = IF currentLine > 0 /\ Len(fileList) > 0
                              THEN currentLine - 1 ELSE currentLine
        /\ CursorDown
            => currentLine' = IF currentLine + 1 < Len(fileList)
                              THEN currentLine + 1 ELSE currentLine
        /\ (ListFilesEnd \/ ApplyFilter(filterBuffer))
            => currentLine' = IF currentLine < Len(fileList')
                              THEN currentLine
                              ELSE max(0, Len(fileList') - 1)
      ]_vars

\* C27 witness: the cursor was on the second of two lines when an
\* ApplyFilter left one line, and it is on that line.
C27_Witness ==
    /\ Len(allFiles) = 2
    /\ Len(fileList) = 1
    /\ currentLine = 0
    /\ selectedFiles = {allFiles[2]}
    /\ opened = selectedFiles
    /\ filterBuffer = sGoGlob
    /\ statusMsg = Status("", 0)

\* C23: with an empty selection CopyAllSelected leaves the clipboard as it
\* is; otherwise, unless the clipboard refuses the write, the clipboard
\* holds exactly one block per selected file and no other block, in the
\* order of fileList, which is the lexicographic order, and the count in
\* the status message is the number of selected files.
C23_CopyWritesSelectedInOrder ==
    [][CopyAllSelected
          => IF selectedFiles = {}
             THEN /\ clipboard' = clipboard
                  /\ statusMsg' = Status("No files selected to copy.", 0)
             ELSE \/ /\ clipboard' = clipboard
                     /\ statusMsg' = Status("Error copying to clipboard!", 0)
                  \/ /\ Len(clipboard') = Cardinality(selectedFiles)
                     /\ {clipboard'[i].file : i \in 1..Len(clipboard')} = selectedFiles
                     /\ \A i, j \in 1..Len(clipboard') :
                           i < j => /\ IndexIn(fileList, clipboard'[i].file)
                                        < IndexIn(fileList, clipboard'[j].file)
                                    /\ LexLess(clipboard'[i].file, clipboard'[j].file)
                     /\ \A i \in 1..Len(clipboard') : clipboard'[i].readable
                     /\ statusMsg' = Status("Copied content of %d file(s) to clipboard.",
                                            Cardinality(selectedFiles))
       ]_vars

\* C23 witness: both listed files were selected and copied.
C23_Witness ==
    /\ Len(fileList) = 2
    /\ Cardinality(selectedFiles) = 2
    /\ Len(clipboard) = 2
    /\ statusMsg = Status("Copied content of %d file(s) to clipboard.", 2)

\* A key typed in the filter view.
EditStep == \E buffer \in UIBuffers : EditFilterBuffer(buffer)

\* C22: an edit of the filter view's buffer and CancelFilter leave
\* filterMode, includes, excludes, allFiles, fileList and selectedFiles
\* unchanged; the pattern strings change only in an ApplyFilter step, which
\* gives the pattern string of the mode the trimmed buffer; CancelFilter
\* drops what was typed.
C22_EditAndCancelCommitNothing ==
    [][ /\ (EditStep \/ CancelFilter)
            => UNCHANGED << filterMode, includes, excludes, allFiles, fileList,
                            selectedFiles >>
        /\ CancelFilter
            => filterBuffer' = ActivePattern(filterMode, includes, excludes)
        /\ << includes', excludes' >> # << includes, excludes >>
            => /\ ApplyFilter(filterBuffer)
               /\ ActivePattern(filterMode, includes', excludes')
                     = TrimSpace[filterBuffer]
      ]_vars

\* C22 witness: the buffer of the filter view holds an edit that is not the
\* pattern string in force, after an earlier ApplyFilter.
C22_Witness ==
    /\ currentView = FilterViewName
    /\ filterBuffer = sDirA
    /\ filterMode = ExcludeMode
    /\ excludes = sGoGlob
    /\ Len(fileList) = 1

\* C30: ApplyFilter gives the pattern string of the current mode the
\* trimmed buffer and leaves the other pattern string, filterMode and
\* allFiles unchanged; ToggleFilterMode changes filterMode, and with it the
\* mode of the cache entry when there is one, and leaves includes,
\* excludes, allFiles and selectedFiles unchanged.
C30_FilterHandlersFrame ==
    [][ /\ ApplyFilter(filterBuffer)
            => /\ UNCHANGED << filterMode, allFiles >>
               /\ IF filterMode = ExcludeMode
                  THEN excludes' = TrimSpace[filterBuffer] /\ includes' = includes
                  ELSE includes' = TrimSpace[filterBuffer] /\ excludes' = excludes
        /\ ToggleFilterMode
            => /\ filterMode' \in FilterModes \ {filterMode}
               /\ UNCHANGED << includes, excludes, allFiles, selectedFiles >>
               /\ cache' = IF cacheFilePath # "" /\ cache.present
                           THEN CacheEntry(cache.includes, cache.excludes, filterMode')
                           ELSE cache
      ]_vars

\* C30 witness: an ApplyFilter in ExcludeMode has set excludes, a file is
\* selected, and ToggleFilterMode has since switched the program and the
\* cache entry to IncludeMode.
C30_Witness ==
    /\ filterMode = IncludeMode
    /\ cache.present
    /\ cache.filterMode = IncludeMode
    /\ excludes = sGoGlob
    /\ cache.excludes = sGoGlob
    /\ includes = << >>
    /\ selectedFiles # {}
    /\ currentView = FilterViewName

\* C28: the mutex is held by the worker exactly while ListFiles is between
\* its Lock and the end of applyFilters, and by nobody between two steps
\* otherwise; ListFiles takes it once, when it is free, and only the
\* applyFilters at its end gives it back; an ApplyFilter finds it free and
\* leaves it free; no handler that locks runs while the worker holds it.
C28_LockHandOff ==
    [][ /\ mutex' \in {"none", "worker"}
        /\ mutex' = "worker" <=> pc' = "WalkDir"
        /\ ListFilesBegin => mutex = "none" /\ mutex' = "worker"
        /\ ListFilesEnd => mutex = "worker" /\ mutex' = "none"
        /\ mutex = "worker" => mutex' = "worker" \/ ListFilesEnd
        /\ ApplyFilterStep => mutex = "none" /\ mutex' = "none"
        /\ (Layout \/ ToggleFilterMode) => mutex = "none" /\ mutex' = "none"
      ]_vars

\* C28 witness: ListFiles has run and given the mutex back, and an
\* ApplyFilter has run after it and left the mutex free.
C28_Witness ==
    /\ pc = "done"
    /\ mutex = "none"
    /\ excludes = sDirA
    /\ currentView = FilesViewName
    /\ Len(allFiles) >= 2

\* C29: when the loading flag is off and no error is recorded, the worker
\* has ended, allFiles is the sorted result of the finished walk and
\* fileList is the filtered list of allFiles for the pattern strings (and
\* for the mode of the last recomputation); both lists are in place before
\* SetLoadingComplete runs, and the main view is rendered only after it.
C29_LoadedMeansListsBuilt ==
    /\ pc = "SetLoadingComplete"
         => /\ isLoading
            /\ pending = << >>
            /\ allFiles = SortStrings[files]
            /\ fileList = filteredList(allFiles, filterMode, includes, excludes)
    /\ (~isLoading /\ loadingError = Nil)
         => /\ pc = "done"
            /\ pending = << >>
            /\ allFiles = SortStrings[files]
            /\ Range(allFiles) = ExpectedCandidates
            /\ \E mode \in FilterModes :
                  fileList = filteredList(allFiles, mode, includes, excludes)
    /\ screen = "main" => ~isLoading /\ pc = "done"

\* C29 witness: the main view is on display after the load, with a
\* filtered list that is shorter than the candidate list.
C29_Witness ==
    /\ ~isLoading
    /\ loadingError = Nil
    /\ screen = "main"
    /\ Len(allFiles) >= 3
    /\ Len(fileList) = 2

(***************************************************************************)
(* Claims C31 to C36.                                                      *)
(***************************************************************************)

\* Pattern strings to put in the place of the one of the inactive mode.
OtherPatterns == { << >>, sGoGlob, sDirA, << "/" >>, pABgo, DefaultExcludes }

\* C31: for the candidate list, the mode and the pattern strings of a
\* loaded state, the filtered list in IncludeMode is the same whatever
\* string stands in the place of excludes, and the filtered list in
\* ExcludeMode is the same whatever string stands in the place of includes.
C31_InactivePatternIrrelevant ==
    Loaded =>
        \A other \in OtherPatterns :
            /\ filteredList(allFiles, IncludeMode, includes, other)
                  = filteredList(allFiles, IncludeMode, includes, excludes)
            /\ filteredList(allFiles, ExcludeMode, other, excludes)
                  = filteredList(allFiles, ExcludeMode, includes, excludes)

\* C31 witness: IncludeMode with includes "*.go" shows a/b.go although the
\* excludes string "a/" names its directory.
C31_Witness ==
    /\ pc = "done"
    /\ filterMode = IncludeMode
    /\ includes = sGoGlob
    /\ excludes = sDirA
    /\ pABgo \in Range(fileList)
    /\ fileList = filteredList(allFiles, IncludeMode, includes, << >>)

\* The files a walk finds that prunes at the directories the ignore matcher
\* answers true for, and at no other: the text files, other than the root's
\* ignore-file, that the matcher does not answer true for, below a readable
\* root, with every directory above them readable.
WalkedWithoutBuiltinPruning ==
    {e.path : e \in
        {x \in tree.entries :
            /\ ~x.isDir
            /\ x.st = "text"
            /\ x.path # pGitignore
            /\ ~IsIgnored(x.path)
            /\ tree.rootSt = "ok"
            /\ \A dir \in Ancestors(x.path) : Entry(tree, dir).st = "ok"}}

\* C32 (refuted by the code): after the walk, the files the filter shows of
\* allFiles are the files it shows of the result of a walk without built-in
\* pruning.
C32_PruningIsOptimisation ==
    Loaded =>
        Range(filteredList(allFiles, filterMode, includes, excludes))
          = {file \in WalkedWithoutBuiltinPruning :
                shouldIncludeFileByFilters(file, filterMode, includes, excludes)}

\* Patterns to append to a pattern string.
AppendedPatterns == { sGoGlob, sDirA, << "/" >>, pACtxt, sBadGlob }

\* The pattern string with one more pattern.
WithPattern(str, pattern) == str \o << "," >> \o pattern

sXTxt == << "x", ",", " ", "*", ".", "t", "x", "t" >>

\* C33: for the candidate list and the pattern strings of a loaded state,
\* the files visible in ExcludeMode with one more pattern in excludes are
\* among those visible without it, and, when includes holds a pattern, the
\* files visible in IncludeMode are among those visible with one more
\* pattern in includes.
C33_MorePatternsMonotone ==
    Loaded =>
        \A pattern \in AppendedPatterns :
            /\ Range(filteredList(allFiles, ExcludeMode, includes,
                                  WithPattern(excludes, pattern)))
                  \subseteq
               Range(filteredList(allFiles, ExcludeMode, includes, excludes))
            /\ PatternSet(includes) # {}
                  => Range(filteredList(allFiles, IncludeMode, includes, excludes))
                        \subseteq
                     Range(filteredList(allFiles, IncludeMode,
                                        WithPattern(includes, pattern), excludes))

\* C33 witness: excludes is "x, *.txt", the pattern x with *.txt after it:
\* a/c.txt, which x alone leaves visible, is hidden and a/b.go is visible.
C33_Witness ==
    /\ pc = "done"
    /\ filterMode = ExcludeMode
    /\ excludes = sXTxt
    /\ pACtxt \in Range(allFiles)
    /\ pACtxt \notin Range(fileList)
    /\ pABgo \in Range(fileList)
    /\ pACtxt \in Range(filteredList(allFiles, ExcludeMode, includes, << "x" >>))

\* A step removes the cache file: it held an entry and holds none after.
CacheFileRemoved ==
    /\ cacheFile # NoEntry \/ otherFile # NoEntry
    /\ cacheFile' = NoEntry
    /\ otherFile' = NoEntry

\* A step resets the in-memory cache: the entry of the other directory is
\* dropped.
CacheReset == otherCache # NoEntry /\ otherCache' = NoEntry

\* What every step of the cache view keeps of the confirmation protocol.
ConfirmationProtocolStep ==
    /\ awaitingCacheClearConfirmation' /\ ~awaitingCacheClearConfirmation
          => PromptClearCache /\ showCacheView
    /\ ShowCacheView \/ CloseCacheView \/ CancelClearCache \/ ConfirmClearCache
          => ~awaitingCacheClearConfirmation'
    /\ ConfirmClearCache /\ ~awaitingCacheClearConfirmation => UNCHANGED vars
    /\ CacheFileRemoved \/ CacheReset
          => /\ ConfirmClearCache
             /\ awaitingCacheClearConfirmation
             /\ showCacheView
             /\ cacheFilePath # ""
             /\ cache' = CacheEntry(includes, excludes, filterMode)

\* C34: a confirmation is awaited only while the cache view is to be shown;
\* it starts to be awaited only in a PromptClearCache step taken with the
\* cache view open, and ShowCacheView, CloseCacheView, CancelClearCache and
\* ConfirmClearCache each end it; a ConfirmClearCache step taken while none
\* is awaited changes nothing, and a step removes the cache file or resets
\* the in-memory cache only if it is a ConfirmClearCache step taken while a
\* confirmation is awaited, which that step consumes: one prompt clears the
\* cache at most once.
C34_ClearOnlyOnAwaitedConfirmation ==
    /\ [](awaitingCacheClearConfirmation => showCacheView)
    /\ [][ConfirmationProtocolStep]_vars

\* C34 witness: the cache view after a confirmed clear of a cache file that
\* held the entry of another directory: the file is gone, the in-memory
\* cache holds rootDir's entry only, and no confirmation is awaited.
C34_Witness ==
    /\ showCacheView
    /\ ~awaitingCacheClearConfirmation
    /\ cacheViewContent = ContentCleared
    /\ cacheFile = NoEntry
    /\ otherFile = NoEntry
    /\ otherCache = NoEntry
    /\ cache = CacheEntry(includes, excludes, filterMode)
    /\ includes = sGoGlob

\* A step of one of the two handlers that change the settings.
SettingsStep ==
    \/ \E buffer \in UIBuffers : ApplyFilter(buffer)
    \/ ToggleFilterMode

\* C35: with a known cache path and a cache file that saveCache can write,
\* after every ApplyFilter and every ToggleFilterMode step the entry of
\* rootDir in the cache file holds the includes, excludes and filterMode
\* the program then has, NewApp started on that file takes exactly those
\* three values, and the entry of another directory in the file is what it
\* was before the step.
C35_SettingsRoundTrip ==
    [][SettingsStep /\ cacheFilePath # "" /\ cacheWritable
          => /\ cacheFile' = CacheEntry(includes', excludes', filterMode')
             /\ NewApp(TRUE, cacheFile').includes = includes'
             /\ NewApp(TRUE, cacheFile').excludes = excludes'
             /\ NewApp(TRUE, cacheFile').filterMode = filterMode'
             /\ otherFile' = otherFile]_vars

\* C35 witness: ToggleFilterMode and ApplyFilter of "*.go" have run on a
\* writable cache file that holds the entry of another directory; the file
\* holds IncludeMode and "*.go" for rootDir, which are not what NewApp
\* starts with on a file without the entry.
C35_Witness ==
    /\ cacheFilePath = "known"
    /\ cacheWritable
    /\ filterMode = IncludeMode
    /\ includes = sGoGlob
    /\ excludes = DefaultExcludes
    /\ cacheFile = CacheEntry(sGoGlob, DefaultExcludes, IncludeMode)
    /\ otherFile = CacheEntry(sDirA, << >>, ExcludeMode)
    /\ NewApp(TRUE, cacheFile).filterMode = IncludeMode
    /\ NewApp(TRUE, NoEntry).filterMode = ExcludeMode
    /\ pc = "done"

\* A step changes what the cache file holds.
CacheFileChanges == << cacheFile, otherFile >>' # << cacheFile, otherFile >>

\* What every step of saveCache keeps: the cache file changes only in the
\* rename, which gives it the whole of data and ends the call without an
\* error; while the call goes on and when it returns an error the cache
\* file is what it was; a completed write leaves the whole of data in the
\* temporary file; a call with an empty path returns an error and writes
\* neither file.
AtomicReplaceStep ==
    /\ CacheFileChanges
          => /\ RenameTempFile
             /\ tempFile = Complete(data)
             /\ << cacheFile, otherFile >>' = data
             /\ savePc' = "idle"
             /\ saveErr' = Nil
    /\ savePc' # "idle" \/ saveErr' # Nil => ~CacheFileChanges
    /\ savePc = "WriteFile" /\ savePc' = "Rename"
          => tempFile' = Complete(data)
    /\ SaveCacheCall /\ filePath' = ""
          => /\ saveErr' = "empty path"
             /\ savePc' = "idle"
             /\ UNCHANGED << cacheFile, otherFile, tempFile >>

\* C36 as stated: saveCache replaces the cache file atomically (every step
\* leaves the cache file with the whole previous or the whole new content,
\* a failed write or rename leaves the previous content, an empty path
\* writes nothing), and after a failed rename the temporary file is
\* removed.
C36_AtomicAndTempFileRemoved ==
    [][AtomicReplaceStep
       /\ (RemoveTempFile => tempFile' = Absent)]_vars

\* C36 amended: saveCache replaces the cache file atomically, and after a
\* failed rename it calls os.Remove on the temporary file once and returns
\* the error of the rename: the temporary file is gone, or, when the
\* removal fails too, still holds the whole new content.
C36_AtomicReplace ==
    [][AtomicReplaceStep
       /\ (RemoveTempFile
              => /\ tempFile' \in {Absent, Complete(data)}
                 /\ saveErr' = "rename"
                 /\ savePc' = "idle")]_vars

\* C36 witness: saveCache has returned the error of a failed rename: the
\* cache file holds the previous content, which is not the content the
\* call was to save, and the temporary file is gone.
C36_Witness ==
    /\ savePc = "idle"
    /\ saveErr = "rename"
    /\ filePath = "known"
    /\ << cacheFile, otherFile >> # data
    /\ cacheFile = CacheEntry(sGoGlob, << >>, IncludeMode)
    /\ data[1] = CacheEntry(<< >>, << >>, ExcludeMode)
    /\ tempFile = Absent
====
